---- MODULE Spec2Model ----
(***************************************************************************)
(* Mesh Maker (src/src/projects/Mesh Maker): the document reducer          *)
(* (appReducer), its undo/redo history, the Select-tool drag gesture and   *)
(* the JSON export/import conversion.                                      *)
(*                                                                         *)
(* Coordinates are integers counting 1/100 of a canvas unit, the           *)
(* resolution at which export rounds (Math.round(v * 100) / 100).          *)
(* Ids are integers: a file's ids are 1..NumFileIds, generateId() returns  *)
(* NumFileIds + 1, NumFileIds + 2, ... (never an id handed out before).    *)
(* A JS Map is a function, a JS Set a set, a JS array a sequence.          *)
(***************************************************************************)
EXTENDS Integers, Sequences, FiniteSets, TLC

\* ------------------------------------------------------------------ bounds
\* Dispatched actions per behaviour of Spec.
MaxSteps == 3
\* Ids 1..NumFileIds are the ids a file may carry; the files below use 1..5 and
\* leave NumFileIds itself to no vertex or shape (a stale id).
NumFileIds == 6

\* ------------------------------------------------------- program constants
\* utils.ts:230  [...past, snapshot].slice(-50)
HistoryLimit == 50
\* part_003:33  const [gridSize] = useState(20)
GridSize == 20

\* ------------------------------------------------------------ plain helpers
EmptyMap == << >>

MapSet(m, k, v) == [x \in (DOMAIN m) \cup {k} |-> IF x = k THEN v ELSE m[x]]

MapDelete(m, k) == [x \in (DOMAIN m) \ {k} |-> m[x]]

MapDeleteAll(m, ks) == [x \in (DOMAIN m) \ ks |-> m[x]]

\* Array.prototype.includes
Includes(seq, x) == \E i \in 1..Len(seq) : seq[i] = x

Range(seq) == {seq[i] : i \in 1..Len(seq)}

\* Array.prototype.slice(-n)
SliceLast(seq, n) ==
    IF Len(seq) <= n THEN seq ELSE SubSeq(seq, Len(seq) - n + 1, Len(seq))

\* segments.flatMap(s => [s.p0, s.p1, s.p2, s.p3])
RECURSIVE FlatSegments(_)
FlatSegments(segs) ==
    IF segs = << >> THEN << >>
    ELSE << segs[1].p0, segs[1].p1, segs[1].p2, segs[1].p3 >> \o FlatSegments(Tail(segs))

\* ------------------------------------------------------------- data model
NoId == 0
NoRadius == -1

Vertex(x, y, type) == [x |-> x, y |-> y, type |-> type]

\* A style's opacity is in 1/100; NoFill and NoOpacity stand for a style
\* object that has no fill or opacity field.
NoFill == "undefined"
NoOpacity == -1

DefaultStyle == [color |-> "#000000", strokeWidth |-> 2, fill |-> "", opacity |-> 100]

BaseShape(type, vertexIds) ==
    [type |-> type, vertexIds |-> vertexIds, radius |-> NoRadius,
     segments |-> << >>, closed |-> FALSE,
     style |-> DefaultStyle, visible |-> TRUE, locked |-> FALSE]

LineShape(a, b) == BaseShape("line", << a, b >>)

CircleShape(c, r) == [BaseShape("circle", << c >>) EXCEPT !.radius = r]

Segment(p0, p1, p2, p3) == [p0 |-> p0, p1 |-> p1, p2 |-> p2, p3 |-> p3]

BezierShape(segs) ==
    [BaseShape("bezier", FlatSegments(segs)) EXCEPT !.segments = segs]

PolygonShape(ids) == [BaseShape("polygon", ids) EXCEPT !.closed = TRUE]

\* part_003:35-47  the reducer's initial state
InitialState ==
    [vertices |-> EmptyMap, shapes |-> EmptyMap, groups |-> EmptyMap,
     frames |-> << >>, currentFrameIndex |-> 0, isRecording |-> FALSE,
     selectedVertexIds |-> {}, selectedShapeIds |-> {},
     hoveredVertexId |-> NoId, hoveredShapeId |-> NoId,
     history |-> [past |-> << >>, future |-> << >>]]

Snapshot(s) == [vertices |-> s.vertices, shapes |-> s.shapes]

\* ---------------------------------------------------------------- reducer
\* Fault model: the snapshot is pushed but the redo stack is kept.
saveHistory_KeepsFuture(s) ==
    [past |-> SliceLast(Append(s.history.past, [vertices |-> s.vertices, shapes |-> s.shapes]),
                        HistoryLimit),
     future |-> s.history.future]

\* Fault model: the snapshot is pushed and nothing is dropped.
saveHistory_NoSlice(s) ==
    [past |-> Append(s.history.past, [vertices |-> s.vertices, shapes |-> s.shapes]),
     future |-> << >>]

\* Fault model: an off-by-one bound, slice(-49).
saveHistory_OffByOne(s) ==
    [past |-> SliceLast(Append(s.history.past, [vertices |-> s.vertices, shapes |-> s.shapes]),
                        HistoryLimit - 1),
     future |-> << >>]

saveHistory(s) ==
    [past |-> SliceLast(Append(s.history.past, Snapshot(s)), HistoryLimit),
     future |-> << >>]

ADD_VERTEX(s, id, v) ==
    [s EXCEPT !.vertices = MapSet(s.vertices, id, v),
              !.history = saveHistory(s)]

\* Fault model: a vertex update that takes a history snapshot.
UPDATE_VERTEX_Snapshots(s, id, x, y) ==
    IF id \notin DOMAIN s.vertices THEN s
    ELSE [s EXCEPT !.vertices[id].x = x, !.vertices[id].y = y,
                   !.history = saveHistory(s)]

UPDATE_VERTEX(s, id, x, y) ==
    IF id \notin DOMAIN s.vertices THEN s
    ELSE [s EXCEPT !.vertices[id].x = x, !.vertices[id].y = y]

\* Fault model: only shapes whose first reference is the vertex are cascaded.
DELETE_VERTEX_FirstRefOnly(s, id) ==
    LET shapesToDelete == {sid \in DOMAIN s.shapes :
                              Len(s.shapes[sid].vertexIds) > 0 /\ s.shapes[sid].vertexIds[1] = id}
    IN [s EXCEPT !.vertices = MapDelete(s.vertices, id),
                 !.shapes = MapDeleteAll(s.shapes, shapesToDelete),
                 !.selectedVertexIds = s.selectedVertexIds \ {id},
                 !.history = saveHistory(s)]

DELETE_VERTEX(s, id) ==
    LET shapesToDelete == {sid \in DOMAIN s.shapes : Includes(s.shapes[sid].vertexIds, id)}
    IN [s EXCEPT !.vertices = MapDelete(s.vertices, id),
                 !.shapes = MapDeleteAll(s.shapes, shapesToDelete),
                 !.selectedVertexIds = s.selectedVertexIds \ {id},
                 !.history = saveHistory(s)]

ADD_SHAPE(s, id, shape) ==
    [s EXCEPT !.shapes = MapSet(s.shapes, id, shape),
              !.history = saveHistory(s)]

UPDATE_SHAPE(s, id, radius) ==
    IF id \notin DOMAIN s.shapes THEN s
    ELSE [s EXCEPT !.shapes[id].radius = radius]

DELETE_SHAPE(s, id) ==
    IF id \in DOMAIN s.shapes /\ s.shapes[id].type = "bezier"
    THEN LET segs == s.shapes[id].segments
             vertexIdsToCheck == {segs[i].p1 : i \in 1..Len(segs)} \cup
                                 {segs[i].p2 : i \in 1..Len(segs)}
             isUsedElsewhere(v) ==
                 \E other \in (DOMAIN s.shapes) \ {id} : Includes(s.shapes[other].vertexIds, v)
             orphans == {v \in vertexIdsToCheck : ~isUsedElsewhere(v)}
         IN [s EXCEPT !.shapes = MapDelete(s.shapes, id),
                      !.vertices = MapDeleteAll(s.vertices, orphans),
                      !.selectedShapeIds = s.selectedShapeIds \ {id},
                      !.history = saveHistory(s)]
    ELSE [s EXCEPT !.shapes = MapDelete(s.shapes, id),
                   !.selectedShapeIds = s.selectedShapeIds \ {id},
                   !.history = saveHistory(s)]

SELECT_VERTICES(s, ids, additive) ==
    [s EXCEPT !.selectedVertexIds = IF additive THEN s.selectedVertexIds \cup ids ELSE ids]

SELECT_SHAPES(s, ids, additive) ==
    [s EXCEPT !.selectedShapeIds = IF additive THEN s.selectedShapeIds \cup ids ELSE ids]

HOVER_VERTEX(s, id) == [s EXCEPT !.hoveredVertexId = id]

HOVER_SHAPE(s, id) == [s EXCEPT !.hoveredShapeId = id]

\* The rewrite of one shape by MERGE_VERTICES (the forEach body).
MergeRewrite(shape, ids, newId) ==
    LET sub(v) == IF v \in ids THEN newId ELSE v
    IN IF shape.type = "bezier"
       THEN LET newSegments == [i \in 1..Len(shape.segments) |->
                                    Segment(sub(shape.segments[i].p0), sub(shape.segments[i].p1),
                                            sub(shape.segments[i].p2), sub(shape.segments[i].p3))]
                updated == \E i \in 1..Len(shape.segments) :
                               {shape.segments[i].p0, shape.segments[i].p1,
                                shape.segments[i].p2, shape.segments[i].p3} \cap ids # {}
            IN IF updated
               THEN [shape EXCEPT !.segments = newSegments,
                                  !.vertexIds = FlatSegments(newSegments)]
               ELSE shape
       ELSE [shape EXCEPT !.vertexIds = [i \in 1..Len(shape.vertexIds) |-> sub(shape.vertexIds[i])]]

\* Fault model: MERGE_VERTICES without the guard on the number of ids.
MERGE_VERTICES_NoGuard(s, ids, target, newId) ==
    [s EXCEPT !.vertices = MapDeleteAll(MapSet(s.vertices, newId,
                                               Vertex(target.x, target.y, "anchor")), ids),
              !.shapes = [sid \in DOMAIN s.shapes |-> MergeRewrite(s.shapes[sid], ids, newId)],
              !.selectedVertexIds = {newId},
              !.history = saveHistory(s)]

MERGE_VERTICES(s, ids, target, newId) ==
    IF Cardinality(ids) < 2 THEN s
    ELSE [s EXCEPT !.vertices = MapDeleteAll(MapSet(s.vertices, newId,
                                                    Vertex(target.x, target.y, "anchor")), ids),
                   !.shapes = [sid \in DOMAIN s.shapes |-> MergeRewrite(s.shapes[sid], ids, newId)],
                   !.selectedVertexIds = {newId},
                   !.history = saveHistory(s)]

\* Fault model: selection, hover and frame index survive the import.
IMPORT_DATA_KeepsPointers(s, vertices, shapes, groups, frames) ==
    [s EXCEPT !.vertices = vertices, !.shapes = shapes, !.groups = groups,
              !.frames = frames, !.history = saveHistory(s)]

IMPORT_DATA(s, vertices, shapes, groups, frames) ==
    [s EXCEPT !.vertices = vertices, !.shapes = shapes, !.groups = groups,
              !.frames = frames, !.currentFrameIndex = 0,
              !.selectedVertexIds = {}, !.selectedShapeIds = {},
              !.hoveredVertexId = NoId, !.hoveredShapeId = NoId,
              !.history = saveHistory(s)]

\* A frame: the recorded positions and the recorded circle radii.
Frame(vertices, shapeProperties) == [vertices |-> vertices, shapeProperties |-> shapeProperties]

\* Fault model: a frame that holds no circle radius.
CaptureFrame_NoRadii(s) ==
    Frame([id \in DOMAIN s.vertices |-> [x |-> s.vertices[id].x, y |-> s.vertices[id].y]],
          EmptyMap)

CaptureFrame(s) ==
    Frame([id \in DOMAIN s.vertices |-> [x |-> s.vertices[id].x, y |-> s.vertices[id].y]],
          [id \in {sid \in DOMAIN s.shapes : s.shapes[sid].type = "circle"} |->
              [radius |-> s.shapes[id].radius]])

RECORD_FRAME(s) ==
    [s EXCEPT !.frames = Append(s.frames, CaptureFrame(s)),
              !.currentFrameIndex = Len(s.frames)]

\* Frame indices are 0-based as in the source; frames[[i]] is the TLA+ frames[i + 1].
ValidFrameIndex(s, i) == i >= 0 /\ i < Len(s.frames)

SET_CURRENT_FRAME(s, frameIndex) ==
    IF ~ValidFrameIndex(s, frameIndex) THEN s
    ELSE [s EXCEPT !.currentFrameIndex = frameIndex]

\* Fault model: APPLY_FRAME as a structural edit, with a history snapshot.
APPLY_FRAME_Snapshots(s, frameIndex) ==
    IF ~ValidFrameIndex(s, frameIndex) THEN s
    ELSE LET frame == s.frames[frameIndex + 1]
         IN [s EXCEPT
                !.vertices = [id \in DOMAIN s.vertices |->
                    IF id \in DOMAIN frame.vertices
                    THEN [s.vertices[id] EXCEPT !.x = frame.vertices[id].x,
                                                !.y = frame.vertices[id].y]
                    ELSE s.vertices[id]],
                !.shapes = [id \in DOMAIN s.shapes |->
                    IF id \in DOMAIN frame.shapeProperties /\ s.shapes[id].type = "circle"
                    THEN [s.shapes[id] EXCEPT !.radius = frame.shapeProperties[id].radius]
                    ELSE s.shapes[id]],
                !.currentFrameIndex = frameIndex,
                !.history = saveHistory(s)]

APPLY_FRAME(s, frameIndex) ==
    IF ~ValidFrameIndex(s, frameIndex) THEN s
    ELSE LET frame == s.frames[frameIndex + 1]
         IN [s EXCEPT
                !.vertices = [id \in DOMAIN s.vertices |->
                    IF id \in DOMAIN frame.vertices
                    THEN [s.vertices[id] EXCEPT !.x = frame.vertices[id].x,
                                                !.y = frame.vertices[id].y]
                    ELSE s.vertices[id]],
                !.shapes = [id \in DOMAIN s.shapes |->
                    IF id \in DOMAIN frame.shapeProperties /\ s.shapes[id].type = "circle"
                    THEN [s.shapes[id] EXCEPT !.radius = frame.shapeProperties[id].radius]
                    ELSE s.shapes[id]],
                !.currentFrameIndex = frameIndex]

DELETE_FRAME(s, frameIndex) ==
    IF ~ValidFrameIndex(s, frameIndex) THEN s
    ELSE LET newFrames == [i \in 1..(Len(s.frames) - 1) |->
                              IF i <= frameIndex THEN s.frames[i] ELSE s.frames[i + 1]]
         IN [s EXCEPT !.frames = newFrames,
                      !.currentFrameIndex =
                          IF s.currentFrameIndex < Len(newFrames) - 1
                          THEN s.currentFrameIndex ELSE Len(newFrames) - 1]

\* UPDATE_FRAME with updates = { vertices }.
UPDATE_FRAME(s, frameIndex, vertices) ==
    IF ~ValidFrameIndex(s, frameIndex) THEN s
    ELSE [s EXCEPT !.frames[frameIndex + 1].vertices = vertices]

\* action.t is the fraction tn / TDen.  lerp(a, b, t) = a + (b - a) * t; the
\* inputs below keep (b - a) * tn a multiple of TDen, so the division is exact.
TDen == 2

lerp(a, b, tn) == a + ((b - a) * tn) \div TDen

\* Fault model: t is used as it comes.
ClampT_None(tn) == tn

ClampT(tn) == IF tn < 0 THEN 0 ELSE IF tn > TDen THEN TDen ELSE tn

\* Fault model: an interpolation built on APPLY_FRAME of the to-frame.
INTERPOLATE_FRAMES_OnApply(s, fromIndex, toIndex, tn) ==
    IF ~ValidFrameIndex(s, fromIndex) \/ ~ValidFrameIndex(s, toIndex) THEN s
    ELSE LET fromFrame == s.frames[fromIndex + 1]
             toFrame == s.frames[toIndex + 1]
             a == APPLY_FRAME(s, toIndex)
             t == ClampT(tn)
         IN [a EXCEPT
                !.vertices = [id \in DOMAIN a.vertices |->
                    IF id \in DOMAIN fromFrame.vertices /\ id \in DOMAIN toFrame.vertices
                    THEN [a.vertices[id] EXCEPT
                             !.x = lerp(fromFrame.vertices[id].x, toFrame.vertices[id].x, t),
                             !.y = lerp(fromFrame.vertices[id].y, toFrame.vertices[id].y, t)]
                    ELSE a.vertices[id]],
                !.currentFrameIndex = s.currentFrameIndex]

INTERPOLATE_FRAMES(s, fromIndex, toIndex, tn) ==
    IF ~ValidFrameIndex(s, fromIndex) \/ ~ValidFrameIndex(s, toIndex) THEN s
    ELSE LET fromFrame == s.frames[fromIndex + 1]
             toFrame == s.frames[toIndex + 1]
             t == ClampT(tn)
         IN [s EXCEPT
                !.vertices = [id \in DOMAIN s.vertices |->
                    IF id \in DOMAIN fromFrame.vertices /\ id \in DOMAIN toFrame.vertices
                    THEN [s.vertices[id] EXCEPT
                             !.x = lerp(fromFrame.vertices[id].x, toFrame.vertices[id].x, t),
                             !.y = lerp(fromFrame.vertices[id].y, toFrame.vertices[id].y, t)]
                    ELSE s.vertices[id]],
                !.shapes = [id \in DOMAIN s.shapes |->
                    IF /\ s.shapes[id].type = "circle"
                       /\ id \in DOMAIN fromFrame.shapeProperties
                       /\ id \in DOMAIN toFrame.shapeProperties
                    THEN [s.shapes[id] EXCEPT
                             !.radius = lerp(fromFrame.shapeProperties[id].radius,
                                             toFrame.shapeProperties[id].radius, t)]
                    ELSE s.shapes[id]]]

\* Fault model: the batch update takes a history snapshot like a structural edit.
BATCH_UPDATE_Snapshots(s, updates) ==
    [s EXCEPT !.vertices =
        [id \in DOMAIN s.vertices |->
            IF \E u \in updates : u.id = id
            THEN LET u == CHOOSE u \in updates : u.id = id
                 IN [s.vertices[id] EXCEPT !.x = u.x, !.y = u.y]
            ELSE s.vertices[id]],
             !.history = saveHistory(s)]

\* updates: a set of [id, x, y]; ids are distinct in every caller.
BATCH_UPDATE(s, updates) ==
    [s EXCEPT !.vertices =
        [id \in DOMAIN s.vertices |->
            IF \E u \in updates : u.id = id
            THEN LET u == CHOOSE u \in updates : u.id = id
                 IN [s.vertices[id] EXCEPT !.x = u.x, !.y = u.y]
            ELSE s.vertices[id]]]

\* Fault model: Undo also drops the selection.
UNDO_ClearsSelection(s) ==
    IF Len(s.history.past) = 0 THEN s
    ELSE LET previous == s.history.past[Len(s.history.past)]
         IN [s EXCEPT !.vertices = previous.vertices,
                      !.shapes = previous.shapes,
                      !.selectedVertexIds = {},
                      !.selectedShapeIds = {},
                      !.history = [past |-> SubSeq(s.history.past, 1, Len(s.history.past) - 1),
                                   future |-> << [vertices |-> s.vertices, shapes |-> s.shapes] >>
                                              \o s.history.future]]

\* Fault model: Undo without the empty-past guard still pushes the current state on
\* the future stack.
UNDO_NoGuard(s) ==
    IF Len(s.history.past) = 0
    THEN [s EXCEPT !.history.future = << [vertices |-> s.vertices, shapes |-> s.shapes] >>
                                      \o s.history.future]
    ELSE LET previous == s.history.past[Len(s.history.past)]
         IN [s EXCEPT !.vertices = previous.vertices,
                      !.shapes = previous.shapes,
                      !.history = [past |-> SubSeq(s.history.past, 1, Len(s.history.past) - 1),
                                   future |-> << [vertices |-> s.vertices, shapes |-> s.shapes] >>
                                              \o s.history.future]]

UNDO(s) ==
    IF Len(s.history.past) = 0 THEN s
    ELSE LET previous == s.history.past[Len(s.history.past)]
         IN [s EXCEPT !.vertices = previous.vertices,
                      !.shapes = previous.shapes,
                      !.history = [past |-> SubSeq(s.history.past, 1, Len(s.history.past) - 1),
                                   future |-> << Snapshot(s) >> \o s.history.future]]

\* Fault: a Redo that does not push the current snapshot onto past.
REDO_NoPush(s) ==
    IF Len(s.history.future) = 0 THEN s
    ELSE LET next == s.history.future[1]
         IN [s EXCEPT !.vertices = next.vertices,
                      !.shapes = next.shapes,
                      !.history = [past |-> s.history.past,
                                   future |-> Tail(s.history.future)]]

REDO(s) ==
    IF Len(s.history.future) = 0 THEN s
    ELSE LET next == s.history.future[1]
         IN [s EXCEPT !.vertices = next.vertices,
                      !.shapes = next.shapes,
                      !.history = [past |-> Append(s.history.past, Snapshot(s)),
                                   future |-> Tail(s.history.future)]]

CLEAR_ALL(s) == InitialState

Abs(n) == IF n < 0 THEN -n ELSE n

\* Math.round(n / d) for d > 0: halves go up.
JSRound(n, d) == (2 * n + d) \div (2 * d)

\* -------------------------------------------------------- vertex operations
\* Thresholds are the source's canvas units times 100.
FindThreshold == 8 * 100

SnapRadius == 15 * 100

HandleThreshold == 10 * 100

MinRadius == 5 * 100

RECURSIVE SqrtSearch(_, _, _)
SqrtSearch(n, lo, hi) ==
    IF lo >= hi THEN lo
    ELSE LET mid == (lo + hi + 1) \div 2
         IN IF mid * mid <= n THEN SqrtSearch(n, mid, hi) ELSE SqrtSearch(n, lo, mid - 1)

\* Math.sqrt, to 1/100 canvas unit (rounded down).
ISqrt(n) == SqrtSearch(n, 0, IF n < 46340 THEN n ELSE 46340)

DistSq(p, q) == (q.x - p.x) * (q.x - p.x) + (q.y - p.y) * (q.y - p.y)

distance(p, q) == ISqrt(DistSq(p, q))

\* The value of 0 / 0 in the source: a coordinate that is no number.
NaN == -(2 ^ 30)

\* A comparison with NaN is false.
isPointNearVertex(x, y, vertex, threshold) ==
    /\ vertex.x # NaN
    /\ vertex.y # NaN
    /\ DistSq([x |-> x, y |-> y], vertex) < threshold * threshold

\* A loop that returns its first match in Map iteration order is modelled by the
\* set of all matches ({NoId} when there is none): the caller picks any of them.
FirstMatch(matches) == IF matches = {} THEN {NoId} ELSE matches

findVertexAt(s, x, y) ==
    FirstMatch({id \in DOMAIN s.vertices :
                    isPointNearVertex(x, y, s.vertices[id], FindThreshold)})

\* snapToVertices is always on.
findNearbyVertexForSnap(s, x, y) ==
    FirstMatch({id \in DOMAIN s.vertices :
                    /\ id \notin s.selectedVertexIds
                    /\ isPointNearVertex(x, y, s.vertices[id], SnapRadius)})

snapPoint(snapToGrid, x, y) ==
    IF ~snapToGrid THEN [x |-> x, y |-> y]
    ELSE [x |-> JSRound(x, GridSize * 100) * GridSize * 100,
          y |-> JSRound(y, GridSize * 100) * GridSize * 100]

\* ------------------------------------------------------- export and import
\* Canvas coordinates and radii are integers in 1/100 canvas unit; a file holds
\* integers in 1/100 grid unit, the two decimals the export keeps.

SetMin(S) == CHOOSE m \in S : \A x \in S : m <= x

SetMax(S) == CHOOSE m \in S : \A x \in S : m >= x

\* calculateGlobalBoundingBox: over the live vertices and every frame's positions.
AllPositions(s) ==
    {[x |-> s.vertices[id].x, y |-> s.vertices[id].y] : id \in DOMAIN s.vertices}
    \cup UNION {{s.frames[i].vertices[id] : id \in DOMAIN s.frames[i].vertices} :
                i \in 1..Len(s.frames)}

calculateGlobalBoundingBox(s) ==
    LET ps == AllPositions(s)
    IN IF ps = {} THEN [originX |-> 0, originY |-> 0, width |-> 0, height |-> 0]
       ELSE [originX |-> SetMin({q.x : q \in ps}), originY |-> SetMin({q.y : q \in ps}),
             width |-> SetMax({q.x : q \in ps}) - SetMin({q.x : q \in ps}),
             height |-> SetMax({q.y : q \in ps}) - SetMin({q.y : q \in ps})]

\* Fault model: the bounding box's origin is not subtracted.
toGridUnits_NoOrigin(bb, gridSize, pixelX, pixelY) ==
    [x |-> JSRound(pixelX, gridSize), y |-> JSRound(pixelY, gridSize)]

toGridUnits(bb, gridSize, pixelX, pixelY) ==
    [x |-> JSRound(pixelX - bb.originX, gridSize), y |-> JSRound(pixelY - bb.originY, gridSize)]

\* The style object written for a shape: fill || "", opacity ?? 1.
ExportStyle(style) ==
    [color |-> style.color, strokeWidth |-> style.strokeWidth,
     fill |-> IF style.fill = NoFill THEN "" ELSE style.fill,
     opacity |-> IF style.opacity = NoOpacity THEN 100 ELSE style.opacity]

ExportShape(shape, gridSize) ==
    [type |-> shape.type, vertexRefs |-> shape.vertexIds,
     radius |-> IF shape.type = "circle" THEN JSRound(shape.radius, gridSize) ELSE NoRadius,
     hasSegments |-> shape.type = "bezier",
     segments |-> IF shape.type = "bezier" THEN shape.segments ELSE << >>,
     hasClosed |-> shape.type \in {"bezier", "polygon"},
     closed |-> IF shape.type \in {"bezier", "polygon"} THEN shape.closed ELSE FALSE,
     style |-> ExportStyle(shape.style), visible |-> shape.visible, locked |-> shape.locked]

exportToJSON(s, gridSize) ==
    LET bb == calculateGlobalBoundingBox(s)
    IN [vertices |-> [id \in DOMAIN s.vertices |->
                        [position |-> toGridUnits(bb, gridSize, s.vertices[id].x, s.vertices[id].y),
                         type |-> s.vertices[id].type]],
        shapes |-> [id \in DOMAIN s.shapes |-> ExportShape(s.shapes[id], gridSize)],
        groups |-> [id \in DOMAIN s.groups |->
                        [name |-> s.groups[id].name, shapeRefs |-> s.groups[id].shapeIds]],
        frames |-> [i \in 1..Len(s.frames) |->
                      [vertexPositions |->
                          [id \in DOMAIN s.frames[i].vertices |->
                              toGridUnits(bb, gridSize, s.frames[i].vertices[id].x,
                                          s.frames[i].vertices[id].y)],
                       shapeProperties |->
                          [id \in DOMAIN s.frames[i].shapeProperties |->
                              [radius |-> JSRound(s.frames[i].shapeProperties[id].radius,
                                                  gridSize)]]]],
        unit |-> "grid", gridSize |-> gridSize,
        originalOrigin |-> [x |-> bb.originX, y |-> bb.originY]]

\* A file's metadata.coordinateSystem is its fields unit and gridSize: unit
\* "none" and gridSize 0 stand for a file that does not carry them.
usesGridUnits(file) == file.unit = "grid"

\* metadata.coordinateSystem.gridSize || gridSize
importGridSize(file, gridSize) == IF file.gridSize = 0 THEN gridSize ELSE file.gridSize

\* fromGridUnits: multiplies by the import grid size when the file's unit is
\* "grid"; the file's originalOrigin is not read.
fromGridUnits(file, gridSize, gridX, gridY) ==
    IF usesGridUnits(file)
    THEN [x |-> gridX * importGridSize(file, gridSize),
          y |-> gridY * importGridSize(file, gridSize)]
    ELSE [x |-> gridX, y |-> gridY]

\* The style read from a file: color || "#000000", strokeWidth || 2, fill as
\* it stands, opacity ?? 1.  A file style without color or strokeWidth is
\* the one with color "" or strokeWidth 0: both take the default.
ParseStyle(fs) ==
    [color |-> IF fs.color = "" THEN "#000000" ELSE fs.color,
     strokeWidth |-> IF fs.strokeWidth = 0 THEN 2 ELSE fs.strokeWidth,
     fill |-> fs.fill,
     opacity |-> IF fs.opacity = NoOpacity THEN 100 ELSE fs.opacity]

ParseShape(file, gridSize, f) ==
    LET base == BaseShape(f.type, f.vertexRefs)
        styled == [base EXCEPT !.style = ParseStyle(f.style), !.visible = f.visible,
                               !.locked = f.locked]
        radius == IF f.radius = NoRadius \/ f.radius = 0 THEN 5000 ELSE f.radius
    IN CASE f.type = "circle" ->
              [styled EXCEPT !.vertexIds = IF Len(f.vertexRefs) = 0 THEN << NoId >>
                                           ELSE << f.vertexRefs[1] >>,
                             !.radius = IF usesGridUnits(file)
                                        THEN radius * importGridSize(file, gridSize)
                                        ELSE radius]
         [] f.type = "bezier" ->
              [styled EXCEPT !.segments = IF f.hasSegments THEN f.segments ELSE << >>,
                             !.closed = f.hasClosed /\ f.closed]
         [] f.type = "polygon" ->
              [styled EXCEPT !.closed = IF f.hasClosed THEN f.closed ELSE TRUE]
         [] OTHER -> styled

parseImportData(file, gridSize) ==
    [vertices |-> [id \in DOMAIN file.vertices |->
                     LET q == fromGridUnits(file, gridSize, file.vertices[id].position.x,
                                            file.vertices[id].position.y)
                     IN Vertex(q.x, q.y, file.vertices[id].type)],
     shapes |-> [id \in DOMAIN file.shapes |-> ParseShape(file, gridSize, file.shapes[id])],
     groups |-> [id \in DOMAIN file.groups |->
                    [name |-> file.groups[id].name, shapeIds |-> file.groups[id].shapeRefs,
                     locked |-> FALSE]],
     frames |-> [i \in 1..Len(file.frames) |->
                   Frame([id \in DOMAIN file.frames[i].vertexPositions |->
                             fromGridUnits(file, gridSize, file.frames[i].vertexPositions[id].x,
                                           file.frames[i].vertexPositions[id].y)],
                         [id \in DOMAIN file.frames[i].shapeProperties |->
                             [radius |->
                                 IF usesGridUnits(file)
                                 THEN file.frames[i].shapeProperties[id].radius *
                                      importGridSize(file, gridSize)
                                 ELSE file.frames[i].shapeProperties[id].radius]])]]

\* Map.set of every imported entry over a copy of the existing map.
MapMerge(old, new) ==
    [k \in (DOMAIN old) \cup (DOMAIN new) |-> IF k \in DOMAIN new THEN new[k] ELSE old[k]]

\* The part of the AppState the importFromJSON callback reads: the `state`
\* of the render that built the callback.
Closure(s) ==
    [vertices |-> s.vertices, shapes |-> s.shapes, groups |-> s.groups, frames |-> s.frames]

\* useCallback's dependency list: the callback is rebuilt, over the new
\* state, when vertices.size or shapes.size differ or when the reducer put a
\* new groups Map or frames array in place (replaced); otherwise the callback
\* built earlier stays in use.
Recapture(c, old, new, replaced) ==
    IF \/ Cardinality(DOMAIN new.vertices) # Cardinality(DOMAIN old.vertices)
       \/ Cardinality(DOMAIN new.shapes) # Cardinality(DOMAIN old.shapes)
       \/ replaced
    THEN Closure(new) ELSE c

\* importFromJSON for a file that validates, run by a callback that captured
\* c and dispatching to the reducer in state s: merge on confirm when the
\* captured Document has content, replace otherwise.
importFromJSON(s, c, file, gridSize, confirmMerge) ==
    LET d == parseImportData(file, gridSize)
        shouldMerge == c.vertices # EmptyMap \/ c.shapes # EmptyMap
    IN IF shouldMerge /\ confirmMerge
       THEN IMPORT_DATA(s, MapMerge(c.vertices, d.vertices), MapMerge(c.shapes, d.shapes),
                        MapMerge(c.groups, d.groups), c.frames \o d.frames)
       ELSE IMPORT_DATA(s, d.vertices, d.shapes, d.groups, d.frames)


\* ----------------------------------------------------------- action inputs
\* Positions (1/100 canvas unit) the actions draw from.
Points == {[x |-> 0, y |-> 0], [x |-> 30, y |-> 10]}

MergeTargets == {[x |-> 0, y |-> 0], [x |-> 10, y |-> 30]}

Radii == {500, 1000}

MissingId == NumFileIds

\* Documents a validated file parses to (validateImportData checks field
\* presence only): two well-formed ones, one whose line names a vertex the
\* file does not hold, one whose bezier carries vertexRefs but no segments.
FileDoc1 ==
    [vertices |-> (1 :> Vertex(0, 0, "anchor")) @@ (2 :> Vertex(30, 0, "anchor")) @@
                  (3 :> Vertex(30, 30, "anchor")),
     shapes |-> (5 :> LineShape(1, 2)) @@ (4 :> LineShape(2, 3)),
     groups |-> (5 :> [name |-> "g", shapeIds |-> << 5 >>, locked |-> FALSE]),
     frames |-> << Frame((1 :> [x |-> 0, y |-> 0]) @@ (2 :> [x |-> 20, y |-> 0]), EmptyMap),
                   Frame((1 :> [x |-> 40, y |-> 20]) @@ (2 :> [x |-> 20, y |-> 40]), EmptyMap) >>]

FileDoc2 ==
    [vertices |-> (1 :> Vertex(0, 0, "anchor")) @@ (2 :> Vertex(10, 0, "control")) @@
                  (3 :> Vertex(20, 30, "control")) @@ (4 :> Vertex(30, 30, "anchor")),
     shapes |-> (5 :> BezierShape(<< Segment(1, 2, 3, 4) >>)),
     groups |-> EmptyMap, frames |-> << >>]

FileDoc3 ==
    [vertices |-> (1 :> Vertex(0, 0, "anchor")),
     shapes |-> (5 :> LineShape(1, 2)),
     groups |-> EmptyMap, frames |-> << >>]

FileDoc4 ==
    [vertices |-> (1 :> Vertex(0, 0, "anchor")) @@ (2 :> Vertex(10, 0, "control")) @@
                  (3 :> Vertex(20, 30, "control")) @@ (4 :> Vertex(30, 30, "anchor")),
     shapes |-> (5 :> BaseShape("bezier", << 1, 2, 3, 4 >>)),
     groups |-> EmptyMap, frames |-> << >>]

FileDocs == {FileDoc1, FileDoc2, FileDoc3, FileDoc4}

\* ------------------------------------------------------------------ state
VARIABLES
    state,      \* the reducer's AppState
    nextId,     \* ids generateId() has handed out so far
    steps,      \* actions dispatched so far
    last,       \* the action dispatched last, with its arguments
    anchor,     \* the {vertices, shapes} the last structural action started from;
                \* valid until an Undo, a Redo or a ClearAll
    hist,       \* SpecHistory: trail, the {vertices, shapes} after each edit of a
                \* run of consecutive edits, and undos, the Undos dispatched since;
                \* SpecFrames: trail, the action dispatched before an ApplyFrame
    io,         \* the last exported file (has = FALSE: none yet), the Document it
                \* was exported from, and the import status shown by the toolbar
    ui          \* the editor's state outside the reducer: tool, snap-to-grid,
                \* the interaction hook's state, the viewport offsets, and the
                \* record of the drag gesture in progress

vars == << state, nextId, steps, last, anchor, hist, io, ui >>

\* utils.ts:4-6  generateId(): an id never seen before
generateId == NumFileIds + nextId + 1

NoPos == [x |-> 0, y |-> 0]

\* The dispatched action; pastLen and futLen are the history's lengths when it
\* was dispatched.
Act(type, id, ids, pos) ==
    [type |-> type, id |-> id, ids |-> ids, pos |-> pos,
     pastLen |-> Len(state.history.past), futLen |-> Len(state.history.future)]

VertexTargets == (DOMAIN state.vertices) \cup state.selectedVertexIds \cup {MissingId}

ShapeTargets == (DOMAIN state.shapes) \cup state.selectedShapeIds \cup {MissingId}

\* Shapes an ADD_SHAPE may carry: the action is not checked against vertices.
ShapeInputs ==
    LET vs == DOMAIN state.vertices
    IN UNION {{LineShape(a, b) : b \in ({a + 1} \cap vs) \cup {MissingId}} : a \in vs} \cup
       {CircleShape(c, r) : c \in vs, r \in {500}}

NoExport == [has |-> FALSE, file |-> exportToJSON(InitialState, GridSize),
             orig |-> [vertices |-> EmptyMap, shapes |-> EmptyMap, frames |-> << >>],
             status |-> "none", closure |-> Closure(InitialState)]

NoGesture == [phase |-> "none", history |-> [past |-> << >>, future |-> << >>],
              vertexId |-> NoId, from |-> NoPos, moves |-> 0]

\* part_003:19-31 and useCanvasInteraction.ts:34-48; Canvas.tsx:100-104
InitialUi ==
    [tool |-> "select", snapToGrid |-> FALSE,
     draggedVertexId |-> NoId, dragOffset |-> NoPos,
     isDraggingRadius |-> NoId, radiusDragStart |-> [x |-> 0, y |-> 0, originalRadius |-> 0],
     selectionBox |-> [active |-> FALSE, startX |-> 0, startY |-> 0, endX |-> 0, endY |-> 0],
     isPanning |-> FALSE, panStart |-> NoPos, nearbyVertexId |-> NoId,
     offsetX |-> 0, offsetY |-> 0,
     held |-> FALSE, gesture |-> NoGesture]

\* The selection, hover and frame index an action started from.
Pointers(s) ==
    [selectedVertexIds |-> s.selectedVertexIds, selectedShapeIds |-> s.selectedShapeIds,
     hoveredVertexId |-> s.hoveredVertexId, hoveredShapeId |-> s.hoveredShapeId,
     currentFrameIndex |-> s.currentFrameIndex]

NoAnchor == [valid |-> FALSE, snap |-> Snapshot(InitialState), from |-> Pointers(InitialState)]

Init ==
    /\ state = InitialState
    /\ nextId = 0
    /\ steps = 0
    /\ last = [type |-> "init", id |-> NoId, ids |-> {}, pos |-> NoPos,
               pastLen |-> 0, futLen |-> 0]
    /\ anchor = NoAnchor
    /\ hist = [trail |-> << >>, undos |-> 0]
    /\ io = NoExport
    /\ ui = InitialUi

\* A structural action that took effect (a merge of fewer than 2 ids is rejected).
StructuralTypes ==
    {"ADD_VERTEX", "ADD_SHAPE", "DELETE_VERTEX", "DELETE_SHAPE", "MERGE_VERTICES", "IMPORT_DATA"}

IsStructural(a) ==
    /\ a.type \in StructuralTypes
    /\ a.type = "MERGE_VERTICES" => Cardinality(a.ids) >= 2

Step(s, a) ==
    /\ steps < MaxSteps
    /\ state' = s
    /\ steps' = steps + 1
    /\ last' = a
    /\ anchor' = IF IsStructural(a)
                 THEN [valid |-> TRUE, snap |-> Snapshot(state), from |-> Pointers(state)]
                 ELSE IF a.type \in {"UNDO", "REDO", "CLEAR_ALL"} THEN NoAnchor
                 ELSE anchor
    /\ UNCHANGED << hist, io, ui >>

AddVertex ==
    \E p \in Points :
        /\ Step(ADD_VERTEX(state, generateId, Vertex(p.x, p.y, "anchor")),
                Act("ADD_VERTEX", generateId, {}, p))
        /\ nextId' = nextId + 1

UpdateVertex ==
    \E id \in VertexTargets, p \in Points :
        /\ Step(UPDATE_VERTEX(state, id, p.x, p.y), Act("UPDATE_VERTEX", id, {}, p))
        /\ UNCHANGED nextId

DeleteVertex ==
    \E id \in VertexTargets :
        /\ Step(DELETE_VERTEX(state, id), Act("DELETE_VERTEX", id, {}, NoPos))
        /\ UNCHANGED nextId

AddShape ==
    \E shape \in ShapeInputs :
        /\ Step(ADD_SHAPE(state, generateId, shape), Act("ADD_SHAPE", generateId, {}, NoPos))
        /\ nextId' = nextId + 1

UpdateShape ==
    \E id \in ShapeTargets, r \in Radii :
        /\ Step(UPDATE_SHAPE(state, id, r), Act("UPDATE_SHAPE", id, {}, NoPos))
        /\ UNCHANGED nextId

DeleteShape ==
    \E id \in ShapeTargets :
        /\ Step(DELETE_SHAPE(state, id), Act("DELETE_SHAPE", id, {}, NoPos))
        /\ UNCHANGED nextId

SelectVertices ==
    \E ids \in {{}, DOMAIN state.vertices} \cup {{v} : v \in DOMAIN state.vertices},
       additive \in BOOLEAN :
        /\ Step(SELECT_VERTICES(state, ids, additive), Act("SELECT_VERTICES", NoId, ids, NoPos))
        /\ UNCHANGED nextId

SelectShapes ==
    \E ids \in {{}, DOMAIN state.shapes}, additive \in BOOLEAN :
        /\ Step(SELECT_SHAPES(state, ids, additive), Act("SELECT_SHAPES", NoId, ids, NoPos))
        /\ UNCHANGED nextId

HoverVertex ==
    \E id \in (DOMAIN state.vertices) \cup {NoId} :
        /\ Step(HOVER_VERTEX(state, id), Act("HOVER_VERTEX", id, {}, NoPos))
        /\ UNCHANGED nextId

MergeVertices ==
    \E ids \in {state.selectedVertexIds, DOMAIN state.vertices} \cup
                {{a, a + 1} \cap DOMAIN state.vertices : a \in DOMAIN state.vertices},
       target \in MergeTargets :
        /\ Step(MERGE_VERTICES(state, ids, target, generateId),
                Act("MERGE_VERTICES", generateId, ids, target))
        /\ nextId' = nextId + 1

ImportData ==
    \E doc \in FileDocs :
        /\ Step(IMPORT_DATA(state, doc.vertices, doc.shapes, doc.groups, doc.frames),
                Act("IMPORT_DATA", NoId, {}, NoPos))
        /\ UNCHANGED nextId

BatchUpdate ==
    \E ids \in {state.selectedVertexIds, DOMAIN state.vertices}, dx \in {10}, dy \in {0, 10} :
        /\ Step(BATCH_UPDATE(state, {[id |-> v, x |-> state.vertices[v].x + dx,
                                       y |-> state.vertices[v].y + dy] :
                                      v \in ids \cap DOMAIN state.vertices}),
                Act("BATCH_UPDATE", NoId, ids, [x |-> dx, y |-> dy]))
        /\ UNCHANGED nextId

Undo ==
    /\ Step(UNDO(state), Act("UNDO", NoId, {}, NoPos))
    /\ UNCHANGED nextId

Redo ==
    /\ Step(REDO(state), Act("REDO", NoId, {}, NoPos))
    /\ UNCHANGED nextId

ClearAll ==
    /\ Step(CLEAR_ALL(state), Act("CLEAR_ALL", NoId, {}, NoPos))
    /\ UNCHANGED nextId

SetCurrentFrame ==
    \E i \in 0..Len(state.frames) :
        /\ Step(SET_CURRENT_FRAME(state, i), Act("SET_CURRENT_FRAME", i, {}, NoPos))
        /\ UNCHANGED nextId

ApplyFrame ==
    \E i \in 0..Len(state.frames) :
        /\ Step(APPLY_FRAME(state, i), Act("APPLY_FRAME", i, {}, NoPos))
        /\ UNCHANGED nextId

InterpolateFrames ==
    \E i \in 0..Len(state.frames), j \in 0..Len(state.frames), tn \in 0..TDen :
        /\ i # j
        /\ Step(INTERPOLATE_FRAMES(state, i, j, tn),
                Act("INTERPOLATE_FRAMES", i, {j}, [x |-> tn, y |-> TDen]))
        /\ UNCHANGED nextId

Next ==
    \/ AddVertex \/ UpdateVertex \/ DeleteVertex
    \/ AddShape \/ UpdateShape \/ DeleteShape
    \/ SelectVertices \/ SelectShapes \/ HoverVertex
    \/ MergeVertices \/ ImportData \/ BatchUpdate
    \/ Undo \/ Redo \/ ClearAll
    \/ SetCurrentFrame \/ ApplyFrame \/ InterpolateFrames

Spec == Init /\ [][Next]_vars

\* ------------------------------------------------------------ SpecHistory
\* A run of consecutive structural edits from the empty history, then Undos and
\* Redos.  Edit k adds a vertex, every third edit adds a circle on the newest
\* vertex instead, so that every document of the run differs from the others.
MaxEdits == 60

HistStep(s, a) ==
    /\ state' = s
    /\ last' = a
    /\ UNCHANGED << steps, anchor, io, ui >>

HistEdit ==
    /\ hist.undos = 0
    /\ Len(hist.trail) < MaxEdits
    /\ LET k == Len(hist.trail) + 1
           newest == NumFileIds + nextId
           s == IF k % 3 = 0
                THEN ADD_SHAPE(state, generateId, CircleShape(newest, 500))
                ELSE ADD_VERTEX(state, generateId, Vertex(10 * k, 0, "anchor"))
       IN /\ HistStep(s, Act(IF k % 3 = 0 THEN "ADD_SHAPE" ELSE "ADD_VERTEX",
                             generateId, {}, NoPos))
          /\ hist' = [hist EXCEPT !.trail = Append(hist.trail, Snapshot(s))]
    /\ nextId' = nextId + 1

HistUndo ==
    /\ hist.undos <= HistoryLimit
    /\ HistStep(UNDO(state), Act("UNDO", NoId, {}, NoPos))
    /\ hist' = [hist EXCEPT !.undos = hist.undos + 1]
    /\ UNCHANGED nextId

HistRedo ==
    /\ hist.undos > 0
    /\ hist.undos = Len(state.history.future)
    /\ HistStep(REDO(state), Act("REDO", NoId, {}, NoPos))
    /\ hist' = [hist EXCEPT !.undos = hist.undos - 1]
    /\ UNCHANGED nextId

NextHistory == HistEdit \/ HistUndo \/ HistRedo

SpecHistory == Init /\ [][NextHistory]_vars

\* ---------------------------------------------------------- SpecRoundTrip
\* Export of a Document, then import of the exported file.  The Documents are
\* drawn from bounded sets; each starts as the state after its import from a
\* file in canvas units.
RTCoords == {0, 30, 1000, 2010}

MaxRTSteps == 4

\* Shapes as the style controls leave them (stroke width 1..20, a fill colour,
\* opacity 0..1, hidden, locked), and as a file whose style object has no
\* fill field parses.
StyledLine ==
    [LineShape(1, 2) EXCEPT
        !.style = [color |-> "#ff0000", strokeWidth |-> 5, fill |-> "#ffffff", opacity |-> 0],
        !.visible = FALSE, !.locked = TRUE]

UnfilledPolygon ==
    [PolygonShape(<< 1, 2, 1 >>) EXCEPT
        !.style = [DefaultStyle EXCEPT !.fill = NoFill], !.closed = FALSE]

RTShapes ==
    {EmptyMap, (3 :> LineShape(1, 2)), (3 :> CircleShape(1, 510)), (3 :> StyledLine),
     (3 :> [BezierShape(<< Segment(1, 2, 2, 1) >>) EXCEPT !.closed = TRUE]) @@
     (4 :> UnfilledPolygon)}

\* A(0,0), B(100,0) and the line between them.
TwoVertexLine ==
    [vertices |-> (1 :> Vertex(0, 0, "anchor")) @@ (2 :> Vertex(10000, 0, "anchor")),
     shapes |-> (3 :> LineShape(1, 2)), groups |-> EmptyMap, frames |-> << >>]

RTDocs ==
    {[vertices |-> (1 :> Vertex(ax, ay, "anchor")) @@ (2 :> Vertex(bx, by, "control")),
      shapes |-> sh, groups |-> EmptyMap, frames |-> fr] :
        ax \in RTCoords, ay \in {0, 2010}, bx \in {30}, by \in {0, 1000},
        sh \in RTShapes,
        fr \in {<< >>, << Frame((1 :> [x |-> 0, y |-> 1000]), EmptyMap) >>}}
    \cup {[vertices |-> (1 :> Vertex(ax, ay, "anchor")), shapes |-> EmptyMap,
           groups |-> EmptyMap, frames |-> << >>] : ax \in RTCoords, ay \in RTCoords}
    \cup {TwoVertexLine}

RTInit ==
    /\ \E d \in RTDocs :
          state = IMPORT_DATA(InitialState, d.vertices, d.shapes, d.groups, d.frames)
    /\ nextId = 0
    /\ steps = 0
    /\ last = [type |-> "init", id |-> NoId, ids |-> {}, pos |-> NoPos,
               pastLen |-> 0, futLen |-> 0]
    /\ anchor = NoAnchor
    /\ hist = [trail |-> << >>, undos |-> 0]
    /\ io = [NoExport EXCEPT !.closure = Closure(state)]
    /\ ui = InitialUi

RTStep(s, a) ==
    /\ steps < MaxRTSteps
    /\ state' = s
    /\ steps' = steps + 1
    /\ last' = a
    /\ UNCHANGED << nextId, anchor, hist, ui >>

ExportToJSON ==
    /\ RTStep(state, Act("exportToJSON", NoId, {}, NoPos))
    /\ io' = [io EXCEPT !.has = TRUE, !.file = exportToJSON(state, GridSize),
                         !.orig = [vertices |-> state.vertices, shapes |-> state.shapes,
                                   frames |-> state.frames],
                         !.status = "success"]

RTClearAll ==
    /\ RTStep(CLEAR_ALL(state), Act("CLEAR_ALL", NoId, {}, NoPos))
    /\ io' = [io EXCEPT !.closure = Recapture(io.closure, state, state', TRUE)]

ImportFromJSON ==
    /\ io.has
    /\ \E confirmMerge \in BOOLEAN :
          RTStep(importFromJSON(state, io.closure, io.file, GridSize, confirmMerge),
                 Act("importFromJSON", NoId, {}, NoPos))
    /\ io' = [io EXCEPT !.status = "success",
                         !.closure = Recapture(io.closure, state, state', TRUE)]

NextRoundTrip == ExportToJSON \/ RTClearAll \/ ImportFromJSON

SpecRoundTrip == RTInit /\ [][NextRoundTrip]_vars

\* ---------------------------------------------------------------- SpecDrag
\* The pointer handlers of the canvas with the Select and Vertex tools, the
\* tool and snap-to-grid keys, and the import of a sample file.  Events carry
\* screen positions; the zoom is 1 throughout.  A pointer-down comes only with
\* the button up and a pointer-up only with it down.
MaxDragSteps == 5

ScreenPoints ==
    {[x |-> 200, y |-> 100], [x |-> 4000, y |-> 900],
     [x |-> 2130, y |-> 3070], [x |-> 5000, y |-> 0]}

\* A file exported earlier: two anchors, a line between them, a circle on the second.
SampleFile ==
    exportToJSON([InitialState EXCEPT
                    !.vertices = (1 :> Vertex(1000, 1000, "anchor")) @@
                                 (2 :> Vertex(5000, 1000, "anchor")),
                    !.shapes = (3 :> LineShape(1, 2)) @@ (4 :> CircleShape(2, 1000))],
                 GridSize)

screenToCanvas(u, screen) == [x |-> screen.x - u.offsetX, y |-> screen.y - u.offsetY]

DragStep(s, u, a) ==
    /\ steps < MaxDragSteps
    /\ state' = s
    /\ ui' = u
    /\ steps' = steps + 1
    /\ last' = a
    /\ io' = [io EXCEPT !.closure = Recapture(io.closure, state, s,
                                              a.type = "importFromJSON")]
    /\ UNCHANGED << anchor, hist >>

\* The selected circles whose radius handle is under the point.
RadiusHandlesAt(s, point) ==
    {sid \in DOMAIN s.shapes :
        /\ s.shapes[sid].type = "circle"
        /\ sid \in s.selectedShapeIds
        /\ s.shapes[sid].vertexIds[1] \in DOMAIN s.vertices
        /\ LET center == s.vertices[s.shapes[sid].vertexIds[1]]
           IN /\ Abs(point.x - (center.x + s.shapes[sid].radius)) < HandleThreshold
              /\ Abs(point.y - center.y) < HandleThreshold}

\* The circles the point is inside of.
CirclesAt(s, point) ==
    {sid \in DOMAIN s.shapes :
        /\ s.shapes[sid].type = "circle"
        /\ s.shapes[sid].vertexIds[1] \in DOMAIN s.vertices
        /\ DistSq(point, s.vertices[s.shapes[sid].vertexIds[1]])
              <= s.shapes[sid].radius * s.shapes[sid].radius}

\* handleMouseDown, Select tool, a vertex under the pointer.
SelectDownOnVertex(s, u, point, shiftKey, vid) ==
    LET isSelected == vid \in s.selectedVertexIds
        s1 == IF shiftKey
              THEN IF isSelected
                   THEN SELECT_VERTICES(s, s.selectedVertexIds \ {vid}, FALSE)
                   ELSE SELECT_VERTICES(s, {vid}, TRUE)
              ELSE IF ~isSelected THEN SELECT_VERTICES(s, {vid}, FALSE) ELSE s
        u1 == IF isSelected \/ ~shiftKey
              THEN [u EXCEPT !.draggedVertexId = vid,
                             !.dragOffset = [x |-> point.x - s.vertices[vid].x,
                                             y |-> point.y - s.vertices[vid].y],
                             !.gesture = [phase |-> "dragging", history |-> s.history,
                                          vertexId |-> vid,
                                          from |-> [x |-> s.vertices[vid].x,
                                                    y |-> s.vertices[vid].y],
                                          moves |-> 0]]
              ELSE u
    IN [s |-> s1, u |-> u1]

\* handleMouseDown, Select tool, no vertex under the pointer.
SelectDownOnSpace(s, u, point, shiftKey, sid) ==
    IF sid # NoId
    THEN [s |-> SELECT_SHAPES(s, {sid}, shiftKey), u |-> u]
    ELSE [s |-> IF shiftKey THEN s
                ELSE SELECT_SHAPES(SELECT_VERTICES(s, {}, FALSE), {}, FALSE),
          u |-> [u EXCEPT !.selectionBox = [active |-> TRUE,
                                            startX |-> point.x, startY |-> point.y,
                                            endX |-> point.x, endY |-> point.y]]]

MouseDown ==
    /\ ~ui.held
    /\ \E screen \in ScreenPoints, shiftKey \in BOOLEAN, ctrlKey \in BOOLEAN :
        LET point == screenToCanvas(ui, screen)
            u0 == [ui EXCEPT !.held = TRUE, !.gesture = NoGesture]
            a == Act("mouseDown", NoId, {}, point)
        IN IF ctrlKey
           THEN /\ DragStep(state, [u0 EXCEPT !.isPanning = TRUE,
                                              !.panStart = [x |-> screen.x - ui.offsetX,
                                                            y |-> screen.y - ui.offsetY]], a)
                /\ UNCHANGED nextId
           ELSE IF ui.tool = "select" /\ RadiusHandlesAt(state, point) # {}
           THEN /\ \E sid \in RadiusHandlesAt(state, point) :
                      DragStep(state,
                               [u0 EXCEPT !.isDraggingRadius = sid,
                                          !.radiusDragStart =
                                              [x |-> point.x, y |-> point.y,
                                               originalRadius |-> state.shapes[sid].radius]],
                               a)
                /\ UNCHANGED nextId
           ELSE IF ui.tool = "select"
           THEN /\ \E vid \in findVertexAt(state, point.x, point.y) :
                      IF vid # NoId
                      THEN LET r == SelectDownOnVertex(state, u0, point, shiftKey, vid)
                           IN DragStep(r.s, r.u, a)
                      ELSE \E sid \in FirstMatch(CirclesAt(state, point)) :
                             LET r == SelectDownOnSpace(state, u0, point, shiftKey, sid)
                             IN DragStep(r.s, r.u, a)
                /\ UNCHANGED nextId
           ELSE \* the Vertex tool
                LET snapped == snapPoint(ui.snapToGrid, point.x, point.y)
                IN \E near \in findNearbyVertexForSnap(state, snapped.x, snapped.y) :
                     IF near # NoId
                     THEN DragStep(state, u0, a) /\ UNCHANGED nextId
                     ELSE /\ DragStep(ADD_VERTEX(state, generateId,
                                                 Vertex(snapped.x, snapped.y, "anchor")),
                                      u0, a)
                          /\ nextId' = nextId + 1

\* handleMouseMove past the panning check: hover, nearby vertex, then the
\* selection box, the radius drag or the vertex drag.
MoveEdit(s, u, point) ==
    IF u.selectionBox.active
    THEN [s |-> s, u |-> [u EXCEPT !.selectionBox.endX = point.x,
                                   !.selectionBox.endY = point.y]]
    ELSE IF u.isDraggingRadius # NoId
    THEN IF /\ u.isDraggingRadius \in DOMAIN s.shapes
            /\ s.shapes[u.isDraggingRadius].type = "circle"
            /\ s.shapes[u.isDraggingRadius].vertexIds[1] \in DOMAIN s.vertices
         THEN LET center == s.vertices[s.shapes[u.isDraggingRadius].vertexIds[1]]
                  newRadius == distance(point, center)
              IN [s |-> UPDATE_SHAPE(s, u.isDraggingRadius,
                                     IF newRadius < MinRadius THEN MinRadius ELSE newRadius),
                  u |-> u]
         ELSE [s |-> s, u |-> u]
    ELSE IF u.draggedVertexId # NoId
    THEN LET updates ==
               IF u.draggedVertexId \in s.selectedVertexIds
               THEN IF u.draggedVertexId \in DOMAIN s.vertices
                    THEN LET dv == s.vertices[u.draggedVertexId]
                             dx == point.x - u.dragOffset.x - dv.x
                             dy == point.y - u.dragOffset.y - dv.y
                         IN {[id |-> id, x |-> s.vertices[id].x + dx,
                              y |-> s.vertices[id].y + dy] :
                                id \in s.selectedVertexIds \cap DOMAIN s.vertices}
                    ELSE {}
               ELSE {[id |-> u.draggedVertexId, x |-> point.x - u.dragOffset.x,
                      y |-> point.y - u.dragOffset.y]}
         IN [s |-> IF updates # {} THEN BATCH_UPDATE(s, updates) ELSE s,
             u |-> [u EXCEPT !.gesture.moves = u.gesture.moves + 1]]
    ELSE [s |-> s, u |-> u]

MouseMove ==
    \E screen \in ScreenPoints :
        LET point == screenToCanvas(ui, screen)
            a == Act("mouseMove", NoId, {}, point)
        IN /\ IF ui.isPanning
              THEN DragStep(state, [ui EXCEPT !.offsetX = screen.x - ui.panStart.x,
                                              !.offsetY = screen.y - ui.panStart.y], a)
              ELSE \E vid \in findVertexAt(state, point.x, point.y),
                      near \in IF ui.tool # "select"
                               THEN findNearbyVertexForSnap(state, point.x, point.y)
                               ELSE {NoId} :
                     LET r == MoveEdit(HOVER_VERTEX(state, vid),
                                       [ui EXCEPT !.nearbyVertexId = near], point)
                     IN DragStep(r.s, r.u, a)
           /\ UNCHANGED nextId

\* handleMouseUp past the panning check.  isDrawing is never set by the Select
\* and Vertex tools.
UpEdit(s, u, shiftKey) ==
    IF u.selectionBox.active
    THEN LET b == u.selectionBox
             minX == IF b.startX < b.endX THEN b.startX ELSE b.endX
             maxX == IF b.startX < b.endX THEN b.endX ELSE b.startX
             minY == IF b.startY < b.endY THEN b.startY ELSE b.endY
             maxY == IF b.startY < b.endY THEN b.endY ELSE b.startY
             inBox == {id \in DOMAIN s.vertices :
                          /\ s.vertices[id].x >= minX /\ s.vertices[id].x <= maxX
                          /\ s.vertices[id].y >= minY /\ s.vertices[id].y <= maxY}
         IN [s |-> SELECT_VERTICES(s, inBox, shiftKey),
             u |-> [u EXCEPT !.selectionBox.active = FALSE]]
    ELSE IF u.isDraggingRadius # NoId
    THEN [s |-> s, u |-> [u EXCEPT !.isDraggingRadius = NoId,
                                   !.radiusDragStart = InitialUi.radiusDragStart]]
    ELSE LET ids == IF u.draggedVertexId \in s.selectedVertexIds
                    THEN s.selectedVertexIds \cap DOMAIN s.vertices
                    ELSE {u.draggedVertexId} \cap DOMAIN s.vertices
             updates == {[id |-> id,
                          x |-> snapPoint(u.snapToGrid, s.vertices[id].x, s.vertices[id].y).x,
                          y |-> snapPoint(u.snapToGrid, s.vertices[id].x, s.vertices[id].y).y] :
                            id \in ids}
         IN [s |-> IF u.draggedVertexId # NoId /\ u.snapToGrid /\ updates # {}
                   THEN BATCH_UPDATE(s, updates) ELSE s,
             u |-> [u EXCEPT !.draggedVertexId = NoId,
                             !.gesture.phase = IF u.draggedVertexId # NoId THEN "done"
                                               ELSE u.gesture.phase]]

MouseUp ==
    /\ ui.held
    /\ \E screen \in ScreenPoints, shiftKey \in BOOLEAN :
        LET point == screenToCanvas(ui, screen)
            u0 == [ui EXCEPT !.held = FALSE]
            a == Act("mouseUp", NoId, {}, point)
        IN IF ui.isPanning
           THEN DragStep(state, [u0 EXCEPT !.isPanning = FALSE], a)
           ELSE LET r == UpEdit(state, u0, shiftKey)
                IN DragStep(r.s, r.u, a)
    /\ UNCHANGED nextId

\* The s and v keys.
KeyTool ==
    /\ \E tool \in {"select", "vertex"} :
          /\ tool # ui.tool
          /\ DragStep(state, [ui EXCEPT !.tool = tool], Act("setTool", NoId, {}, NoPos))
    /\ UNCHANGED nextId

\* The g key.
KeyGrid ==
    /\ DragStep(state, [ui EXCEPT !.snapToGrid = ~ui.snapToGrid],
                Act("setSnapToGrid", NoId, {}, NoPos))
    /\ UNCHANGED nextId

\* The file picker's import of the sample file; not while the button is down.
DragImport ==
    /\ ~ui.held
    /\ \E confirmMerge \in BOOLEAN :
          DragStep(importFromJSON(state, io.closure, SampleFile, GridSize, confirmMerge), ui,
                   Act("importFromJSON", NoId, {}, NoPos))
    /\ UNCHANGED nextId

NextDrag == MouseDown \/ MouseMove \/ MouseUp \/ KeyTool \/ KeyGrid \/ DragImport

SpecDrag == Init /\ [][NextDrag]_vars

\* ------------------------------------------------------------------ claims
\* Every vertex id a shape refers to: its vertexIds and its segments' fields.
ShapeRefs(shape) ==
    Range(shape.vertexIds) \cup
    UNION {{shape.segments[i].p0, shape.segments[i].p1,
            shape.segments[i].p2, shape.segments[i].p3} : i \in 1..Len(shape.segments)}

\* C1: in every reachable state, every vertex id listed in a surviving shape's
\* vertexIds or in a Bezier segment's p0..p3 is a key of the vertices map.
C1_ReferentialIntegrity ==
    \A sid \in DOMAIN state.shapes : ShapeRefs(state.shapes[sid]) \subseteq DOMAIN state.vertices

\* C2: DeleteVertex(id) removes exactly the shapes whose vertexIds contained id
\* and leaves every other shape as it was, removes id (and nothing else) from
\* vertices, and removes id (and nothing else) from selectedVertexIds.
C2_DeleteVertexCascade ==
    [][last'.type = "DELETE_VERTEX" =>
        LET id == last'.id
            keep == {sid \in DOMAIN state.shapes : id \notin Range(state.shapes[sid].vertexIds)}
        IN /\ DOMAIN state'.shapes = keep
           /\ \A sid \in keep : state'.shapes[sid] = state.shapes[sid]
           /\ DOMAIN state'.vertices = (DOMAIN state.vertices) \ {id}
           /\ \A v \in DOMAIN state'.vertices : state'.vertices[v] = state.vertices[v]
           /\ state'.selectedVertexIds = state.selectedVertexIds \ {id}]_vars

\* C2 witness: a DeleteVertex of an existing vertex that removed some shape,
\* kept another, and left a non-empty selection behind.
C2_Witness ==
    /\ last.type = "DELETE_VERTEX"
    /\ Len(state.history.past) > 0
    /\ LET pre == state.history.past[Len(state.history.past)]
       IN /\ last.id \in DOMAIN pre.vertices
          /\ \E sid \in DOMAIN pre.shapes : sid \notin DOMAIN state.shapes
          /\ \E sid \in DOMAIN pre.shapes : sid \in DOMAIN state.shapes
    /\ state.selectedVertexIds # {}

\* C3: MergeVertices(ids, p) with at least 2 ids creates one new Anchor vertex
\* at p, rewrites every reference (vertexIds and segment fields) to a merged id
\* into the new id and leaves the other references alone, removes every merged
\* id from vertices and sets selectedVertexIds to {newId}.
C3_MergeRewritesEveryReference ==
    [][(last'.type = "MERGE_VERTICES" /\ Cardinality(last'.ids) >= 2) =>
        LET ids == last'.ids
            newId == last'.id
            sub(v) == IF v \in ids THEN newId ELSE v
        IN /\ newId \notin DOMAIN state.vertices
           /\ DOMAIN state'.vertices = ((DOMAIN state.vertices) \ ids) \cup {newId}
           /\ state'.vertices[newId] = Vertex(last'.pos.x, last'.pos.y, "anchor")
           /\ \A v \in (DOMAIN state.vertices) \ ids : state'.vertices[v] = state.vertices[v]
           /\ DOMAIN state'.shapes = DOMAIN state.shapes
           /\ \A sid \in DOMAIN state.shapes :
                 LET old == state.shapes[sid]
                     new == state'.shapes[sid]
                 IN /\ Len(new.vertexIds) = Len(old.vertexIds)
                    /\ \A i \in 1..Len(old.vertexIds) : new.vertexIds[i] = sub(old.vertexIds[i])
                    /\ Len(new.segments) = Len(old.segments)
                    /\ \A i \in 1..Len(old.segments) :
                          new.segments[i] = Segment(sub(old.segments[i].p0), sub(old.segments[i].p1),
                                                    sub(old.segments[i].p2), sub(old.segments[i].p3))
           /\ state'.selectedVertexIds = {newId}]_vars

\* The {vertices, shapes} after the k-th edit of the run (k = 0: before it).
DocAfterEdit(k) == IF k = 0 THEN Snapshot(InitialState) ELSE hist.trail[k]

\* C4: after n consecutive structural edits from the empty history, past holds
\* min(n, 50) snapshots; after 60 edits it holds 50, and 50 Undos then yield the
\* vertices and shapes that existed right after the 10th edit (in general,
\* after n >= 50 edits, those after edit n - 50), not the empty Document.
C4_HistoryBound ==
    LET n == Len(hist.trail)
    IN /\ hist.undos = 0 =>
             Len(state.history.past) = (IF n < HistoryLimit THEN n ELSE HistoryLimit)
       /\ (n = 60 /\ hist.undos = 0) => Len(state.history.past) = 50
       /\ (n >= HistoryLimit /\ hist.undos = HistoryLimit) =>
             Snapshot(state) = DocAfterEdit(n - HistoryLimit)
       /\ (n = 60 /\ hist.undos = 50) =>
             /\ Snapshot(state) = hist.trail[10]
             /\ Snapshot(state) # Snapshot(InitialState)

\* C4 witness: 60 edits, then 50 Undos.
C4_Witness ==
    /\ Len(hist.trail) = 60 /\ hist.undos = 50
    /\ Len(state.history.past) = 0 /\ Len(state.history.future) = 50

\* The last step imported the exported file into an empty Document.
ImportedIntoEmpty ==
    /\ last.type = "importFromJSON"
    /\ state.history.past[Len(state.history.past)] = Snapshot(InitialState)

\* C10: after the export of a Document with at least one vertex and the import
\* of the exported file (same gridSize) into an empty Document, every vertex is
\* within 0.005 * gridSize canvas units of its position before the export, in
\* each coordinate, wherever the bounding box's minimum corner was.
C10_RoundTripPositions ==
    (ImportedIntoEmpty /\ io.orig.vertices # EmptyMap) =>
        \A id \in DOMAIN io.orig.vertices :
            /\ id \in DOMAIN state.vertices
            /\ 2 * Abs(state.vertices[id].x - io.orig.vertices[id].x) <= GridSize
            /\ 2 * Abs(state.vertices[id].y - io.orig.vertices[id].y) <= GridSize

\* The last step was the pointer-up that ended a vertex drag.
DragCompleted == last.type = "mouseUp" /\ ui.gesture.phase = "done"

\* C7 as stated: a complete drag gesture in the Select tool (pointer-down on a
\* vertex, pointer-moves, pointer-up) adds exactly one entry to history.past.
C7_DragAddsOneEntry ==
    DragCompleted =>
        Len(state.history.past) = Len(ui.gesture.history.past) + 1

\* C7, amended: a complete drag gesture in the Select tool adds no entry to
\* history.past: past and future after the pointer-up are those at the
\* pointer-down, however many positions the vertex passed through.
C7_DragLeavesHistory ==
    DragCompleted => state.history = ui.gesture.history

\* C7 witness: a completed drag of two or more moves that left the dragged
\* vertex away from where the pointer-down found it.
C7_Witness ==
    /\ DragCompleted /\ ui.gesture.moves >= 2
    /\ ui.gesture.vertexId \in DOMAIN state.vertices
    /\ Len(state.history.past) > 0
    /\ state.vertices[ui.gesture.vertexId].x # ui.gesture.from.x

\* C5: when a structural action is applied to vertices V and shapes S and only
\* non-snapshotted edits follow (no structural action, Undo, Redo or ClearAll),
\* one Undo yields vertices = V and shapes = S.
C5_UndoRestoresPriorState ==
    [][(last'.type = "UNDO" /\ anchor.valid) => Snapshot(state') = anchor.snap]_vars

ContinuousTypes ==
    {"UPDATE_VERTEX", "UPDATE_SHAPE", "BATCH_UPDATE", "APPLY_FRAME", "INTERPOLATE_FRAMES"}

\* C5 witness: import of FileDoc1 into the empty document, one non-snapshotted
\* edit that moved a vertex, then an Undo: the moved document is on the future
\* stack and the document is empty again.
C5_Witness ==
    /\ last.type = "UNDO" /\ last.pastLen = 1 /\ steps = 3
    /\ Len(state.history.future) = 1
    /\ state.history.future[1].shapes = FileDoc1.shapes
    /\ DOMAIN state.history.future[1].vertices = DOMAIN FileDoc1.vertices
    /\ state.history.future[1].vertices # FileDoc1.vertices
    /\ state.vertices = EmptyMap

\* C6: a structural action leaves history.future empty, and a Redo dispatched
\* right after a structural action changes nothing.
C6_StructuralEditClearsFuture ==
    /\ [](IsStructural(last) => state.history.future = << >>)
    /\ [][(IsStructural(last) /\ last'.type = "REDO") => state' = state]_vars

\* C6 witness: a structural action dispatched while the future stack was not
\* empty (after an Undo).
C6_Witness == IsStructural(last) /\ last.futLen > 0

\* C8: Undo and Redo leave selection, hover, groups, frames and
\* currentFrameIndex as they were.
C8_UndoRedoFrame ==
    [][last'.type \in {"UNDO", "REDO"} =>
        /\ state'.selectedVertexIds = state.selectedVertexIds
        /\ state'.selectedShapeIds = state.selectedShapeIds
        /\ state'.hoveredVertexId = state.hoveredVertexId
        /\ state'.hoveredShapeId = state.hoveredShapeId
        /\ state'.groups = state.groups
        /\ state'.frames = state.frames
        /\ state'.currentFrameIndex = state.currentFrameIndex
        /\ state'.isRecording = state.isRecording]_vars

\* C8 witness: an Undo that took a snapshot back while vertices were selected
\* and frames existed.
C8_Witness ==
    /\ last.type = "UNDO" /\ last.pastLen > 0
    /\ state.selectedVertexIds # {}
    /\ state.frames # << >>

\* C9: Undo with history.past empty and Redo with history.future empty return
\* the state unchanged.
C9_UndoRedoAtEnds ==
    [][/\ (last'.type = "UNDO" /\ Len(state.history.past) = 0) => state' = state
       /\ (last'.type = "REDO" /\ Len(state.history.future) = 0) => state' = state]_vars

\* C9 witness: an Undo dispatched with an empty past on a state that is not the
\* initial one (everything had been undone already).
C9_Witness ==
    /\ last.type = "UNDO" /\ last.pastLen = 0
    /\ Len(state.history.future) > 0

\* ------------------------------------------------------------ SpecImport
\* Imports of pasted text and of files read asynchronously, with vertex edits
\* in between.  A text is what JSON.parse and validateImportData see of it:
\* whether it parses, which of the three arrays it has, which vertices lack a
\* 2-element position, which shapes lack a vertexRefs array or a style object,
\* whether a frame lacks id, name or vertexPositions; data holds the rest.  A
\* vertex or shape without id is the entry under NoId, a shape without type
\* has type "".
MaxImportSteps == 3

ImportBase ==
    [vertices |-> (1 :> [position |-> [x |-> 150, y |-> 200], type |-> "anchor"]) @@
                  (2 :> [position |-> [x |-> 300, y |-> 0], type |-> "anchor"]),
     shapes |-> (3 :> ExportShape(LineShape(1, 2), GridSize)),
     groups |-> EmptyMap,
     frames |-> << [vertexPositions |-> (1 :> [x |-> 100, y |-> 100]),
                    shapeProperties |-> EmptyMap] >>,
     unit |-> "grid", gridSize |-> GridSize, originalOrigin |-> [x |-> 0, y |-> 0]]

Text(data) ==
    [parses |-> TRUE, hasVertices |-> TRUE, hasShapes |-> TRUE, hasGroups |-> TRUE,
     badPosition |-> {}, noVertexRefs |-> {}, noStyle |-> {}, badFrame |-> FALSE,
     data |-> data]

\* Well-formed texts: grid unit with a declared grid size other than the
\* session's, grid unit without a declared grid size, no coordinateSystem at
\* all, a declared grid size without the grid unit.
ValidTexts ==
    {Text([ImportBase EXCEPT !.unit = u, !.gridSize = g]) :
        u \in {"grid", "none"}, g \in {0, 10}}

InvalidTexts ==
    {[Text(ImportBase) EXCEPT !.parses = FALSE],
     [Text([ImportBase EXCEPT !.vertices = EmptyMap]) EXCEPT !.hasVertices = FALSE],
     [Text([ImportBase EXCEPT !.shapes = EmptyMap]) EXCEPT !.hasShapes = FALSE],
     [Text(ImportBase) EXCEPT !.hasGroups = FALSE],
     Text([ImportBase EXCEPT !.vertices =
              (NoId :> [position |-> [x |-> 0, y |-> 0], type |-> "anchor"]) @@ @]),
     [Text(ImportBase) EXCEPT !.badPosition = {2}],
     Text([ImportBase EXCEPT !.vertices[2].type = "handle"]),
     Text([ImportBase EXCEPT !.shapes = (NoId :> ExportShape(LineShape(1, 2), GridSize))]),
     Text([ImportBase EXCEPT !.shapes[3].type = ""]),
     [Text(ImportBase) EXCEPT !.noVertexRefs = {3}],
     [Text(ImportBase) EXCEPT !.badFrame = TRUE],
     [Text(ImportBase) EXCEPT !.noStyle = {3}]}

Texts == ValidTexts \cup InvalidTexts

\* Fault model: only the three arrays are checked.
validateImportData_ArraysOnly(text) ==
    text.hasVertices /\ text.hasShapes /\ text.hasGroups

validateImportData(text) ==
    /\ text.hasVertices
    /\ text.hasShapes
    /\ text.hasGroups
    /\ \A id \in DOMAIN text.data.vertices :
          /\ id # NoId
          /\ id \notin text.badPosition
          /\ text.data.vertices[id].type \in {"anchor", "control"}
    /\ \A id \in DOMAIN text.data.shapes :
          /\ id # NoId
          /\ text.data.shapes[id].type # ""
          /\ id \notin text.noVertexRefs
    /\ ~text.badFrame

\* What the try block of importFromJSON gets through: JSON.parse, the
\* validation, and parseImportData, which reads s.style.color of every shape.
Imports(text) == text.parses /\ validateImportData(text) /\ text.noStyle = {}

\* importFromJSON as a whole, run by a callback that captured c: the new
\* AppState, the import status, and whether the merge branch ran.
importFromJSONText(s, c, text, gridSize, confirmMerge) ==
    IF Imports(text)
    THEN [state |-> importFromJSON(s, c, text.data, gridSize, confirmMerge),
          status |-> "success",
          merged |-> (c.vertices # EmptyMap \/ c.shapes # EmptyMap) /\ confirmMerge]
    ELSE [state |-> s, status |-> "error", merged |-> FALSE]

NoPending == [active |-> FALSE, closure |-> Closure(InitialState), text |-> Text(ImportBase)]

ImportInit ==
    /\ state = InitialState
    /\ nextId = 0
    /\ steps = 0
    /\ last = [type |-> "init", id |-> NoId, ids |-> {}, pos |-> NoPos,
               pastLen |-> 0, futLen |-> 0]
    /\ anchor = NoAnchor
    /\ hist = [trail |-> << >>, undos |-> 0]
    /\ io = [has |-> FALSE, file |-> ImportBase, text |-> Text(ImportBase),
             status |-> "none", merged |-> FALSE,
             closure |-> Closure(InitialState), pending |-> NoPending]
    /\ ui = InitialUi

ImportStep(s, a) ==
    /\ steps < MaxImportSteps
    /\ state' = s
    /\ steps' = steps + 1
    /\ last' = a
    /\ UNCHANGED << anchor, hist, ui >>

ImpAddVertex ==
    /\ \E p \in Points :
          ImportStep(ADD_VERTEX(state, generateId, Vertex(p.x, p.y, "anchor")),
                     Act("ADD_VERTEX", generateId, {}, p))
    /\ nextId' = nextId + 1
    /\ io' = [io EXCEPT !.closure = Recapture(io.closure, state, state', FALSE)]

ImpUpdateVertex ==
    /\ \E id \in DOMAIN state.vertices, p \in Points :
          ImportStep(UPDATE_VERTEX(state, id, p.x, p.y), Act("UPDATE_VERTEX", id, {}, p))
    /\ io' = [io EXCEPT !.closure = Recapture(io.closure, state, state', FALSE)]
    /\ UNCHANGED nextId

\* Fault: handlePaste without its JSON.parse and validateImportData guard.
handlePaste_Unchecked(s, c, text, gridSize, confirmMerge) ==
    [called |-> TRUE] @@ importFromJSONText(s, c, text, gridSize, confirmMerge)

\* handlePaste: text that does not parse or validate is dropped in silence
\* (called is FALSE), the rest goes to the current importFromJSON callback.
handlePaste(s, c, text, gridSize, confirmMerge) ==
    IF text.parses /\ validateImportData(text)
    THEN [called |-> TRUE] @@ importFromJSONText(s, c, text, gridSize, confirmMerge)
    ELSE [called |-> FALSE, state |-> s, status |-> "none", merged |-> FALSE]

\* The paste event. io.text records the pasted text in both cases; the
\* status, the file and the closure move only when importFromJSON was called.
Paste ==
    /\ \E text \in Texts, confirmMerge \in BOOLEAN :
          LET r == handlePaste(state, io.closure, text, GridSize, confirmMerge)
          IN /\ ImportStep(r.state, Act(IF r.called THEN "handlePaste" ELSE "pasteIgnored",
                                         NoId, {}, NoPos))
             /\ io' = IF ~r.called THEN [io EXCEPT !.text = text]
                      ELSE [io EXCEPT !.has = TRUE, !.file = text.data, !.text = text,
                                      !.status = r.status, !.merged = r.merged,
                                      !.closure = Recapture(io.closure, state, r.state,
                                                            r.status = "success")]
    /\ UNCHANGED nextId

\* handleFileImport: starts the read; reader.onload holds the importFromJSON
\* callback of this moment.
FileImportStart ==
    /\ ~io.pending.active
    /\ \E text \in Texts :
          io' = [io EXCEPT !.pending = [active |-> TRUE, closure |-> io.closure,
                                        text |-> text]]
    /\ ImportStep(state, Act("handleFileImport", NoId, {}, NoPos))
    /\ UNCHANGED nextId

\* reader.onload: the read completes and the held callback runs.
FileReaderLoad ==
    /\ io.pending.active
    /\ \E confirmMerge \in BOOLEAN :
          LET r == importFromJSONText(state, io.pending.closure, io.pending.text,
                                      GridSize, confirmMerge)
          IN /\ ImportStep(r.state, Act("importFromJSON", NoId, {}, NoPos))
             /\ io' = [io EXCEPT !.has = TRUE, !.file = io.pending.text.data,
                                 !.text = io.pending.text,
                                 !.status = r.status, !.merged = r.merged,
                                 !.pending = NoPending,
                                 !.closure = Recapture(io.closure, state, r.state,
                                                       r.status = "success")]
    /\ UNCHANGED nextId

NextImport == ImpAddVertex \/ ImpUpdateVertex \/ Paste \/ FileImportStart \/ FileReaderLoad

SpecImport == ImportInit /\ [][NextImport]_vars

\* ------------------------------------------------- import and export claims
SameTopologyAndStyle(a, b) ==
    /\ a.type = b.type
    /\ a.vertexIds = b.vertexIds
    /\ a.segments = b.segments
    /\ a.closed = b.closed
    /\ a.style = b.style
    /\ a.visible = b.visible
    /\ a.locked = b.locked

\* C11: after the export of a Document holding a vertex and the import of
\* the exported file into an empty Document, the shapes have the same ids,
\* and each shape the same kind, ordered vertex references, segments, closed
\* flag, style fields, visible and locked as before the export.
C11_RoundTripTopologyStyle ==
    (ImportedIntoEmpty /\ io.orig.vertices # EmptyMap) =>
        /\ DOMAIN state.shapes = DOMAIN io.orig.shapes
        /\ \A id \in DOMAIN io.orig.shapes :
              SameTopologyAndStyle(state.shapes[id], io.orig.shapes[id])

\* The componentwise minimum over the live vertex positions and every
\* frame-recorded position.
MinOver(vals) == CHOOSE m \in vals : \A v \in vals : m <= v

\* (x - minX) / gridSize rounded to 2 decimals, in 1/100 grid unit.
GridPosition(s, gridSize, q) ==
    [x |-> JSRound(q.x - MinOver({r.x : r \in AllPositions(s)}), gridSize),
     y |-> JSRound(q.y - MinOver({r.y : r \in AllPositions(s)}), gridSize)]

\* C12: the exported file holds every live vertex position and every
\* frame-recorded position as ((x - minX) / gridSize, (y - minY) / gridSize)
\* rounded to 2 decimals, the minimum taken over live and frame positions.
C12_ExportPositions ==
    last.type = "exportToJSON" =>
        /\ DOMAIN io.file.vertices = DOMAIN state.vertices
        /\ \A id \in DOMAIN state.vertices :
              io.file.vertices[id].position = GridPosition(state, GridSize, state.vertices[id])
        /\ Len(io.file.frames) = Len(state.frames)
        /\ \A i \in 1..Len(state.frames) :
              /\ DOMAIN io.file.frames[i].vertexPositions = DOMAIN state.frames[i].vertices
              /\ \A id \in DOMAIN state.frames[i].vertices :
                    io.file.frames[i].vertexPositions[id] =
                        GridPosition(state, GridSize, state.frames[i].vertices[id])

\* A(0,0), B(100,0) exported with gridSize 20 as [0,0] and [5,0]; and an export
\* whose minimum comes from a frame-recorded position.
C12_Witness ==
    /\ last.type = "exportToJSON"
    /\ state.vertices = TwoVertexLine.vertices
    /\ io.file.vertices[1].position = [x |-> 0, y |-> 0]
    /\ io.file.vertices[2].position = [x |-> 500, y |-> 0]

C12_FrameMinimum ==
    /\ last.type = "exportToJSON"
    /\ Len(state.frames) = 1
    /\ \A id \in DOMAIN state.vertices : state.vertices[id].x > state.frames[1].vertices[1].x
    /\ io.file.frames[1].vertexPositions[1].x = 0
    /\ io.file.vertices[1].position.x > 0

\* An import that ran importFromJSON to its end.
ImportCompleted == last.type \in {"handlePaste", "importFromJSON"}

\* C13: after a successful import every vertex of the file stands at its file
\* position multiplied by g, where g is the file's declared grid size when it
\* declares one and the session's grid size otherwise, a file without
\* coordinateSystem metadata included.
C13_ImportGridSize ==
    (ImportCompleted /\ io.status = "success") =>
        LET g == IF io.file.gridSize # 0 THEN io.file.gridSize ELSE GridSize
        IN \A id \in DOMAIN io.file.vertices :
              /\ state.vertices[id].x = io.file.vertices[id].position.x * g
              /\ state.vertices[id].y = io.file.vertices[id].position.y * g

\* The texts the claim lists: not parseable; no vertices, shapes or groups
\* array; a vertex without id, 2-element position or type anchor/control; a
\* shape without id, type or vertexRefs.
Malformed(text) ==
    \/ ~text.parses
    \/ ~text.hasVertices \/ ~text.hasShapes \/ ~text.hasGroups
    \/ \E id \in DOMAIN text.data.vertices :
          id = NoId \/ id \in text.badPosition
          \/ text.data.vertices[id].type \notin {"anchor", "control"}
    \/ \E id \in DOMAIN text.data.shapes :
          id = NoId \/ text.data.shapes[id].type = "" \/ id \in text.noVertexRefs

\* C14: when the file read completes with a malformed text, importFromJSON
\* leaves the AppState as it was and sets the error status.
C14_FailedImportLeavesDocument ==
    [][(last'.type = "importFromJSON" /\ Malformed(io.pending.text)) =>
          (state' = state /\ io'.status = "error")]_vars

\* A malformed text met a Document that holds a vertex.
C14_Witness ==
    /\ last.type = "importFromJSON"
    /\ Malformed(io.text)
    /\ io.status = "error"
    /\ state.vertices # EmptyMap

\* C15: a completed merge import leaves the Document as it was at that
\* moment, overridden by the imported entries with the same id, and the frames
\* as they were followed by the imported frames.
C15_MergeActsOnCurrentDocument ==
    [][(ImportCompleted' /\ io'.status = "success" /\ io'.merged) =>
          LET d == parseImportData(io'.file, GridSize)
          IN /\ state'.vertices = MapMerge(state.vertices, d.vertices)
             /\ state'.shapes = MapMerge(state.shapes, d.shapes)
             /\ state'.frames = state.frames \o d.frames]_vars

\* C16: after ImportData the vertices, shapes, groups and frames are the
\* supplied ones, both selections are empty, nothing is hovered and
\* currentFrameIndex is 0.
C16_ImportDataResets ==
    last.type = "IMPORT_DATA" =>
        /\ \E doc \in FileDocs :
              /\ state.vertices = doc.vertices
              /\ state.shapes = doc.shapes
              /\ state.groups = doc.groups
              /\ state.frames = doc.frames
        /\ state.selectedVertexIds = {}
        /\ state.selectedShapeIds = {}
        /\ state.hoveredVertexId = NoId
        /\ state.hoveredShapeId = NoId
        /\ state.currentFrameIndex = 0

\* An import into a Document that had a vertex selected and other content.
C16_Witness ==
    /\ last.type = "IMPORT_DATA"
    /\ anchor.valid
    /\ anchor.from.selectedVertexIds # {}
    /\ anchor.snap.vertices # state.vertices
    /\ state.selectedVertexIds = {}

\* ------------------------------------------------------------ SpecFrames
\* Recording, editing, deleting and interpolating frames.  The Documents start
\* as imported: two vertices and a circle on the first, without frames or with
\* one frame that holds one of the two vertices only.  t is tn / TDen.
MaxFrameSteps == 5

FramePoints == {[x |-> 0, y |-> 0], [x |-> 5000, y |-> 5000]}

FrameRadii == {1000, 2000}

FrameTs == {-1, 0, 1, 2, 3}

FramePairs == {<< 0, 1 >>, << 1, 0 >>, << 0, 2 >>}

FrameDocs ==
    {[vertices |-> (1 :> Vertex(0, 0, "anchor")) @@ (2 :> Vertex(1000, 0, "anchor")),
      shapes |-> (3 :> CircleShape(1, 1000)), groups |-> EmptyMap, frames |-> fr] :
        fr \in {<< >>, << Frame((1 :> [x |-> 2000, y |-> 0]), EmptyMap) >>,
                 << Frame((2 :> [x |-> 3000, y |-> 0]), EmptyMap) >>}}

FramesInit ==
    /\ \E d \in FrameDocs :
          state = IMPORT_DATA(InitialState, d.vertices, d.shapes, d.groups, d.frames)
    /\ nextId = 0
    /\ steps = 0
    /\ last = [type |-> "init", id |-> NoId, ids |-> {}, pos |-> NoPos,
               pastLen |-> 0, futLen |-> 0]
    /\ anchor = NoAnchor
    /\ hist = [trail |-> << >>, undos |-> 0]
    /\ io = NoExport
    /\ ui = InitialUi

\* hist.trail holds the action dispatched before an ApplyFrame.
FrameStep(s, a) ==
    /\ steps < MaxFrameSteps
    /\ state' = s
    /\ steps' = steps + 1
    /\ last' = a
    /\ hist' = [trail |-> IF a.type = "APPLY_FRAME" THEN << last >> ELSE << >>, undos |-> 0]
    /\ UNCHANGED << anchor, io, ui >>

FrRecordFrame ==
    /\ FrameStep(RECORD_FRAME(state), Act("RECORD_FRAME", NoId, {}, NoPos))
    /\ UNCHANGED nextId

FrUpdateVertex ==
    /\ \E p \in FramePoints :
          FrameStep(UPDATE_VERTEX(state, 1, p.x, p.y), Act("UPDATE_VERTEX", 1, {}, p))
    /\ UNCHANGED nextId

FrUpdateShape ==
    /\ \E r \in FrameRadii :
          FrameStep(UPDATE_SHAPE(state, 3, r), Act("UPDATE_SHAPE", 3, {}, NoPos))
    /\ UNCHANGED nextId

FrInterpolateFrames ==
    /\ \E pair \in FramePairs, tn \in FrameTs :
          FrameStep(INTERPOLATE_FRAMES(state, pair[1], pair[2], tn),
                    Act("INTERPOLATE_FRAMES", pair[1], {pair[2]}, [x |-> tn, y |-> TDen]))
    /\ UNCHANGED nextId

FrDeleteFrame ==
    /\ \E i \in {-1, 0, Len(state.frames)} :
          FrameStep(DELETE_FRAME(state, i), Act("DELETE_FRAME", i, {}, NoPos))
    /\ UNCHANGED nextId

FrApplyFrame ==
    /\ \E i \in {0, 1} :
          FrameStep(APPLY_FRAME(state, i), Act("APPLY_FRAME", i, {}, NoPos))
    /\ UNCHANGED nextId

FrUpdateFrame ==
    /\ \E i \in {0, Len(state.frames)} :
          FrameStep(UPDATE_FRAME(state, i, (1 :> [x |-> 5000, y |-> 5000])),
                    Act("UPDATE_FRAME", i, {}, NoPos))
    /\ UNCHANGED nextId

NextFrames ==
    \/ FrRecordFrame \/ FrUpdateVertex \/ FrUpdateShape
    \/ FrInterpolateFrames \/ FrDeleteFrame \/ FrUpdateFrame \/ FrApplyFrame

SpecFrames == FramesInit /\ [][NextFrames]_vars

\* ------------------------------------------------------- reducer claims, II
\* The action just dispatched names a vertex or shape id the Document does
\* not hold, or a frame index outside [0, frames.length).
AddressesNothing ==
    \/ /\ last'.type \in {"UPDATE_VERTEX", "DELETE_VERTEX"}
       /\ last'.id \notin DOMAIN state.vertices
    \/ /\ last'.type \in {"UPDATE_SHAPE", "DELETE_SHAPE"}
       /\ last'.id \notin DOMAIN state.shapes
    \/ /\ last'.type \in {"APPLY_FRAME", "SET_CURRENT_FRAME", "DELETE_FRAME", "UPDATE_FRAME"}
       /\ (last'.id < 0 \/ last'.id >= Len(state.frames))
    \/ /\ last'.type = "INTERPOLATE_FRAMES"
       /\ \E i \in {last'.id} \cup last'.ids : i < 0 \/ i >= Len(state.frames)

\* C17: an action that addresses a nonexistent target leaves the AppState,
\* history included, as it was.
C17_NonexistentTargetNoOp ==
    [][AddressesNothing => state' = state]_vars

\* The vertex ids a bezier's segments name, and the ids the other shapes'
\* vertex references name.
SegmentRefs(shape) ==
    UNION {{shape.segments[i].p0, shape.segments[i].p1,
            shape.segments[i].p2, shape.segments[i].p3} : i \in 1..Len(shape.segments)}

OtherRefs(s, id) ==
    UNION {Range(s.shapes[other].vertexIds) : other \in (DOMAIN s.shapes) \ {id}}

DeletesBezier ==
    /\ last'.type = "DELETE_SHAPE"
    /\ last'.id \in DOMAIN state.shapes
    /\ state.shapes[last'.id].type = "bezier"

\* C18: deleting a bezier removes every vertex its segments name (p0, p1, p2,
\* p3) that no other surviving shape references, keeps those another shape
\* references, and takes the shape id out of selectedShapeIds.
C18_DeleteBezierCascade ==
    [][DeletesBezier =>
          /\ \A v \in SegmentRefs(state.shapes[last'.id]) \cap DOMAIN state.vertices :
                v \in DOMAIN state'.vertices <=> v \in OtherRefs(state, last'.id)
          /\ last'.id \notin state'.selectedShapeIds
          /\ last'.id \notin DOMAIN state'.shapes]_vars

\* ------------------------------------------------------- animation claims
\* The INTERPOLATE_FRAMES just dispatched names two frames the Document holds.
Interpolates ==
    /\ last'.type = "INTERPOLATE_FRAMES"
    /\ \A i \in {last'.id} \cup last'.ids : i >= 0 /\ i < Len(state.frames)

FromFrame == state.frames[last'.id + 1]

ToFrame == state.frames[(CHOOSE j \in last'.ids : TRUE) + 1]

\* t clamped to [0, 1], as a numerator over TDen.
Clamped(tn) == IF tn <= 0 THEN 0 ELSE IF tn >= TDen THEN TDen ELSE tn

\* v = from + (to - from) * t', both sides multiplied by TDen.
Linear(v, from, to, tn) == v * TDen = from * TDen + (to - from) * Clamped(tn)

C20_RecordThenInterpolate ==
    [][/\ last'.type = "RECORD_FRAME" =>
             /\ Len(state'.frames) = Len(state.frames) + 1
             /\ SubSeq(state'.frames, 1, Len(state.frames)) = state.frames
             /\ state'.currentFrameIndex = Len(state'.frames) - 1
             /\ LET f == state'.frames[Len(state'.frames)]
                IN /\ DOMAIN f.vertices = DOMAIN state.vertices
                   /\ \A id \in DOMAIN state.vertices :
                         f.vertices[id] = [x |-> state.vertices[id].x,
                                           y |-> state.vertices[id].y]
                   /\ DOMAIN f.shapeProperties =
                         {id \in DOMAIN state.shapes : state.shapes[id].type = "circle"}
                   /\ \A id \in DOMAIN f.shapeProperties :
                         f.shapeProperties[id].radius = state.shapes[id].radius
       /\ Interpolates =>
             \A id \in (DOMAIN state.shapes) \cap (DOMAIN FromFrame.shapeProperties)
                       \cap (DOMAIN ToFrame.shapeProperties) :
                 state.shapes[id].type = "circle" =>
                     Linear(state'.shapes[id].radius, FromFrame.shapeProperties[id].radius,
                            ToFrame.shapeProperties[id].radius, last'.pos.x)]_vars

\* RecordFrame, centre (0,0) -> (50,50), radius 10 -> 20, RecordFrame,
\* InterpolateFrames(0, 1, 0.5): centre (25,25), radius 15.
C20_Witness ==
    /\ last.type = "INTERPOLATE_FRAMES"
    /\ last.id = 0
    /\ last.ids = {1}
    /\ 2 * last.pos.x = TDen
    /\ Len(state.frames) = 2
    /\ \A i \in 1..2 : /\ 1 \in DOMAIN state.frames[i].vertices
                        /\ 3 \in DOMAIN state.frames[i].shapeProperties
    /\ state.frames[1].vertices[1] = [x |-> 0, y |-> 0]
    /\ state.frames[1].shapeProperties[3].radius = 1000
    /\ state.frames[2].vertices[1] = [x |-> 5000, y |-> 5000]
    /\ state.frames[2].shapeProperties[3].radius = 2000
    /\ state.vertices[1].x = 2500
    /\ state.vertices[1].y = 2500
    /\ state.shapes[3].radius = 1500
    /\ state.currentFrameIndex = 1

\* C21: InterpolateFrames leaves as it is every vertex that one of the two
\* frames does not hold and every shape that is not a circle with a radius in
\* both frames; it adds and removes no vertex and no shape and leaves frames,
\* currentFrameIndex, the selection and the history unchanged.
C21_InterpolateLeavesTheRest ==
    [][Interpolates =>
          /\ DOMAIN state'.vertices = DOMAIN state.vertices
          /\ DOMAIN state'.shapes = DOMAIN state.shapes
          /\ \A id \in DOMAIN state.vertices :
                (id \notin DOMAIN FromFrame.vertices \/ id \notin DOMAIN ToFrame.vertices)
                    => state'.vertices[id] = state.vertices[id]
          /\ \A id \in DOMAIN state.shapes :
                (\/ state.shapes[id].type # "circle"
                 \/ id \notin DOMAIN FromFrame.shapeProperties
                 \/ id \notin DOMAIN ToFrame.shapeProperties)
                    => state'.shapes[id] = state.shapes[id]
          /\ state'.frames = state.frames
          /\ state'.groups = state.groups
          /\ Pointers(state') = Pointers(state)
          /\ state'.history = state.history]_vars

\* An interpolation between a frame that holds neither vertex 1 nor the
\* circle's radius and a frame that holds both at other values than the live
\* ones, while vertex 2, held by both frames, sits between its two positions.
C21_Witness ==
    /\ last.type = "INTERPOLATE_FRAMES"
    /\ last.id = 0
    /\ last.ids = {1}
    /\ 2 * last.pos.x = TDen
    /\ Len(state.frames) >= 2
    /\ 1 \notin DOMAIN state.frames[1].vertices
    /\ 1 \in DOMAIN state.frames[2].vertices
    /\ state.frames[2].vertices[1] # [x |-> state.vertices[1].x, y |-> state.vertices[1].y]
    /\ 3 \notin DOMAIN state.frames[1].shapeProperties
    /\ 3 \in DOMAIN state.frames[2].shapeProperties
    /\ state.frames[2].shapeProperties[3].radius # state.shapes[3].radius
    /\ state.frames[1].vertices[2].x = 3000
    /\ state.frames[2].vertices[2].x = 1000
    /\ state.vertices[2].x = 2000

\* C22: ApplyFrame is idempotent: an ApplyFrame(i) with a valid i dispatched
\* directly after an ApplyFrame(i) leaves the whole Document, history and
\* currentFrameIndex included, as the first one left it.
C22_ApplyFrameIdempotent ==
    [][(/\ last.type = "APPLY_FRAME"
        /\ last'.type = "APPLY_FRAME"
        /\ last'.id = last.id
        /\ ValidFrameIndex(state, last.id)) => state' = state]_vars

\* ApplyFrame(1) twice in a row on a Document whose frame 1 records both
\* vertices and the circle's radius (changed to 20 before it was recorded) and
\* differs from frame 0; the Document shows frame 1's values.
C22_Witness ==
    /\ last.type = "APPLY_FRAME"
    /\ last.id = 1
    /\ hist.trail # << >>
    /\ hist.trail[1].type = "APPLY_FRAME"
    /\ hist.trail[1].id = 1
    /\ Len(state.frames) = 2
    /\ state.currentFrameIndex = 1
    /\ state.frames[1].vertices # state.frames[2].vertices
    /\ \A id \in DOMAIN state.vertices :
          state.frames[2].vertices[id] = [x |-> state.vertices[id].x, y |-> state.vertices[id].y]
    /\ state.frames[2].shapeProperties[3].radius = state.shapes[3].radius
    /\ state.shapes[3].radius = 2000

\* -------------------------------------------------------------- SpecMerge
\* Merging the selection.  The Document starts empty or as imported with the
\* three vertices (0,0), (10,0), (5,10); vertices are placed with the Vertex
\* tool, selected with Ctrl+A, taken out of the selection in the properties
\* panel, removed again by Undo, and merged by mergeSelectedVertices or by a
\* MERGE_VERTICES dispatched directly.
MaxMergeSteps == 6

MaxMergeVertices == 4

MergePoints ==
    {[x |-> 0, y |-> 0], [x |-> 1000, y |-> 0], [x |-> 500, y |-> 1000], [x |-> 5000, y |-> 5000]}

MergeDoc ==
    (1 :> Vertex(0, 0, "anchor")) @@ (2 :> Vertex(1000, 0, "anchor")) @@
    (3 :> Vertex(500, 1000, "anchor"))

RECURSIVE SumOver(_, _)
SumOver(f, S) ==
    IF S = {} THEN 0
    ELSE LET k == CHOOSE k \in S : TRUE IN f[k] + SumOver(f, S \ {k})

\* vertices.reduce((sum, v) => sum + v, 0) / vertices.length, to the nearest
\* 1/100 canvas unit; NaN for an empty list and for a list that holds NaN.
Mean(f, S) ==
    IF S = {} \/ \E k \in S : f[k] = NaN THEN NaN
    ELSE JSRound(SumOver(f, S), Cardinality(S))

\* avgX, avgY over the selected ids that state.vertices holds.
MergeTarget(s) ==
    LET present == s.selectedVertexIds \cap DOMAIN s.vertices
    IN [x |-> Mean([id \in present |-> s.vertices[id].x], present),
        y |-> Mean([id \in present |-> s.vertices[id].y], present)]

mergeSelectedVertices(s, newId) ==
    IF Cardinality(s.selectedVertexIds) < 2 THEN s
    ELSE MERGE_VERTICES(s, s.selectedVertexIds, MergeTarget(s), newId)

MergeInit ==
    /\ state \in {InitialState, IMPORT_DATA(InitialState, MergeDoc, EmptyMap, EmptyMap, << >>)}
    /\ nextId = 0
    /\ steps = 0
    /\ last = [type |-> "init", id |-> NoId, ids |-> {}, pos |-> NoPos,
               pastLen |-> 0, futLen |-> 0]
    /\ anchor = NoAnchor
    /\ hist = [trail |-> << >>, undos |-> 0]
    /\ io = NoExport
    /\ ui = InitialUi

MergeStep(s, a) ==
    /\ steps < MaxMergeSteps
    /\ state' = s
    /\ steps' = steps + 1
    /\ last' = a
    /\ UNCHANGED << anchor, hist, io, ui >>

\* A click of the Vertex tool (snap to grid is off): a vertex within the snap
\* radius that is not selected is reused, nothing is added.
MgAddVertex ==
    \E p \in MergePoints :
        /\ Cardinality(DOMAIN state.vertices) < MaxMergeVertices
        /\ \E near \in findNearbyVertexForSnap(state, p.x, p.y) :
              IF near # NoId
              THEN MergeStep(state, Act("mouseDown", near, {}, p)) /\ UNCHANGED nextId
              ELSE /\ MergeStep(ADD_VERTEX(state, generateId, Vertex(p.x, p.y, "anchor")),
                                Act("ADD_VERTEX", generateId, {}, p))
                   /\ nextId' = nextId + 1

\* Ctrl+A
MgSelectAll ==
    /\ MergeStep(SELECT_VERTICES(state, DOMAIN state.vertices, FALSE),
                 Act("SELECT_VERTICES", NoId, DOMAIN state.vertices, NoPos))
    /\ UNCHANGED nextId

\* The Remove button of a selected vertex in the properties panel.
MgRemoveFromSelection ==
    /\ \E id \in state.selectedVertexIds \cap DOMAIN state.vertices :
          MergeStep(SELECT_VERTICES(state, state.selectedVertexIds \ {id}, FALSE),
                    Act("SELECT_VERTICES", id, state.selectedVertexIds \ {id}, NoPos))
    /\ UNCHANGED nextId

MgUndo ==
    /\ MergeStep(UNDO(state), Act("UNDO", NoId, {}, NoPos))
    /\ UNCHANGED nextId

MgMergeSelected ==
    /\ MergeStep(mergeSelectedVertices(state, generateId),
                 Act("mergeSelectedVertices", generateId, state.selectedVertexIds,
                     MergeTarget(state)))
    /\ nextId' = IF Cardinality(state.selectedVertexIds) < 2 THEN nextId ELSE nextId + 1

\* MERGE_VERTICES dispatched with no id or with one.
MgMergeVertices ==
    \E ids \in {{}} \cup {{id} : id \in DOMAIN state.vertices}, target \in MergePoints :
        /\ MergeStep(MERGE_VERTICES(state, ids, target, generateId),
                     Act("MERGE_VERTICES", generateId, ids, target))
        /\ UNCHANGED nextId

NextMerge ==
    \/ MgAddVertex \/ MgSelectAll \/ MgRemoveFromSelection
    \/ MgUndo \/ MgMergeSelected \/ MgMergeVertices

SpecMerge == MergeInit /\ [][NextMerge]_vars

\* --------------------------------------------------------- merge claims
\* mergeSelectedVertices was called with k >= 2 ids selected.
MergesSelection ==
    /\ last'.type = "mergeSelectedVertices"
    /\ Cardinality(state.selectedVertexIds) >= 2

\* m is the mean of f over S to the nearest 1/100 canvas unit.
IsMean(m, f, S) == 2 * Abs(Cardinality(S) * m - SumOver(f, S)) <= Cardinality(S)

\* C23: merging a selection of k >= 2 vertices leaves none of them in the
\* Document and adds one vertex, at the componentwise arithmetic mean of
\* their positions, so the vertex count drops by k - 1.
C23_MergeAtMean ==
    [][MergesSelection =>
          LET sel == state.selectedVertexIds
              new == (DOMAIN state'.vertices) \ (DOMAIN state.vertices)
          IN /\ sel \cap DOMAIN state'.vertices = {}
             /\ Cardinality(new) = 1
             /\ Cardinality(DOMAIN state'.vertices) =
                    Cardinality(DOMAIN state.vertices) - (Cardinality(sel) - 1)
             /\ sel \subseteq DOMAIN state.vertices
             /\ \A id \in new :
                   /\ IsMean(state'.vertices[id].x, [v \in sel |-> state.vertices[v].x], sel)
                   /\ IsMean(state'.vertices[id].y, [v \in sel |-> state.vertices[v].y], sel)]_vars

\* C24: a MERGE_VERTICES with fewer than 2 ids returns the state it was given
\* (no new vertex, no history entry, the selection as it was), and
\* mergeSelectedVertices with fewer than 2 ids selected changes nothing and
\* takes no new id.
C24_SmallMergeRejected ==
    [][/\ (last'.type = "MERGE_VERTICES" /\ Cardinality(last'.ids) < 2) => state' = state
       /\ (last'.type = "mergeSelectedVertices" /\ Cardinality(state.selectedVertexIds) < 2)
              => (state' = state /\ nextId' = nextId)]_vars

\* A MERGE_VERTICES naming the one selected vertex of a Document with two
\* vertices, two history entries and one Redo entry: the vertices, the
\* selection and the history are still there.
C24_Witness ==
    /\ last.type = "MERGE_VERTICES"
    /\ Cardinality(last.ids) = 1
    /\ last.ids = state.selectedVertexIds
    /\ last.ids \subseteq DOMAIN state.vertices
    /\ Cardinality(DOMAIN state.vertices) = 2
    /\ Len(state.history.past) = last.pastLen
    /\ last.pastLen = 2
    /\ last.futLen = 1
    /\ Len(state.history.future) = 1
    /\ last.id \notin DOMAIN state.vertices

\* mergeSelectedVertices called with one vertex selected: nothing changed.
C24_WitnessSelected ==
    /\ last.type = "mergeSelectedVertices"
    /\ Cardinality(last.ids) = 1
    /\ last.ids = state.selectedVertexIds
    /\ Cardinality(DOMAIN state.vertices) = 2
    /\ Len(state.history.past) = 2

\* ----------------------------------------------------------- SpecPlayback
\* The playback hook (useAnimationPlayback.ts:10-88) with the controls that
\* reach it: the Play/Stop button, the Space key, the speed slider, New Frame
\* and the frame rows of the sidebar, and the keyboard edits Ctrl+A, Delete and
\* Ctrl+Z.  The Document starts as imported, with one vertex and up to three
\* frames that hold it at different places.  ui carries the hook's state:
\* isPlaying, playbackSpeed, animationFrame (a requestAnimationFrame callback is
\* pending), lastTime (0 as in the source: not taken yet), playbackProgress as
\* a numerator over TDen, and currentFramePair; alone says that the user leaves
\* a running playback to itself.  hist.trail is the sequence of frame pairs the
\* loop has gone through since it last began to run.
\* A render and the effect that follows it are part of the step that caused
\* them.
MaxPlaySteps == 4

MaxPlayFrames == 3

\* Milliseconds between two animation frames.
PlayDeltas == {1000, 2000}

PlaySpeeds == {1, 2}

PlayDoc(n) ==
    IMPORT_DATA(InitialState, (1 :> Vertex(0, 0, "anchor")), EmptyMap, EmptyMap,
                [j \in 1..n |-> Frame((1 :> [x |-> (j - 1) * 2000, y |-> 0]), EmptyMap)])

NoPlayback ==
    [isPlaying |-> FALSE, playbackSpeed |-> 1, animationFrame |-> FALSE, lastTime |-> 0,
     playbackProgress |-> 0, currentFramePair |-> [from |-> 0, to |-> 1], alone |-> FALSE]

FramePair(s) ==
    [from |-> s.currentFrameIndex, to |-> (s.currentFrameIndex + 1) % Len(s.frames)]

\* The dependencies of the effect, those of animate included.
PlaybackDeps(s, u) == << u.isPlaying, u.playbackSpeed, Len(s.frames), s.currentFrameIndex >>

\* useAnimationPlayback.ts:58-79: the effect after a render that went from
\* (s0, u0) to (s, u); its cleanup cancels the pending callback.
PlaybackEffect(s0, u0, s, u) ==
    IF PlaybackDeps(s0, u0) = PlaybackDeps(s, u) THEN u
    ELSE IF u.isPlaying /\ Len(s.frames) >= 2
    THEN [u EXCEPT !.lastTime = 0, !.playbackProgress = 0,
                   !.currentFramePair = FramePair(s), !.animationFrame = TRUE]
    ELSE [u EXCEPT !.animationFrame = FALSE]

\* Fault model: the loop goes on after the wrap to frame 0.
StopsAt_Never(nextFromIndex) == FALSE

StopsAt(nextFromIndex) == nextFromIndex = 0

\* useAnimationPlayback.ts:18-56: the callback, deltaTime milliseconds after
\* the previous one.  The result holds the actions it dispatched.
animate(s, u, deltaTime) ==
    LET u0 == [u EXCEPT !.animationFrame = FALSE]
    IN IF ~u.isPlaying \/ Len(s.frames) < 2 THEN [s |-> s, u |-> u0, dispatched |-> {}]
       ELSE LET dt == IF u.lastTime = 0 THEN 0 ELSE deltaTime
                progress == u.playbackProgress + (dt * u.playbackSpeed * TDen) \div 2000
                u1 == [u0 EXCEPT !.lastTime = 1, !.playbackProgress = progress]
            IN IF progress >= TDen
               THEN LET nextFromIndex == u.currentFramePair.to % Len(s.frames)
                        nextToIndex == (nextFromIndex + 1) % Len(s.frames)
                        u2 == [u1 EXCEPT !.currentFramePair =
                                             [from |-> nextFromIndex, to |-> nextToIndex],
                                         !.playbackProgress = 0]
                        s1 == SET_CURRENT_FRAME(s, nextFromIndex)
                    IN IF StopsAt(nextFromIndex)
                       THEN [s |-> s1, u |-> [u2 EXCEPT !.isPlaying = FALSE],
                             dispatched |-> {"SET_CURRENT_FRAME"}]
                       ELSE [s |-> INTERPOLATE_FRAMES(s1, nextFromIndex, nextToIndex, 0),
                             u |-> [u2 EXCEPT !.animationFrame = TRUE],
                             dispatched |-> {"SET_CURRENT_FRAME", "INTERPOLATE_FRAMES"}]
               ELSE [s |-> INTERPOLATE_FRAMES(s, u.currentFramePair.from,
                                              u.currentFramePair.to, progress),
                     u |-> [u1 EXCEPT !.animationFrame = TRUE],
                     dispatched |-> {"INTERPOLATE_FRAMES"}]

PlaybackInit ==
    /\ \E n \in 0..MaxPlayFrames : state = PlayDoc(n)
    /\ nextId = 0
    /\ steps = 0
    /\ last = [type |-> "init", id |-> NoId, ids |-> {}, pos |-> NoPos,
               pastLen |-> 0, futLen |-> 0]
    /\ anchor = NoAnchor
    /\ hist = [trail |-> << >>, undos |-> 0]
    /\ io = NoExport
    /\ ui = InitialUi @@ NoPlayback

\* The step of a handler that left the reducer at s and the hook at u.
PlayStep(s, u, a) ==
    LET v == PlaybackEffect(state, ui, s, u)
    IN /\ state' = s
       /\ ui' = v
       /\ last' = a
       /\ hist' = [hist EXCEPT !.trail =
                      IF ~(v.isPlaying /\ Len(s.frames) >= 2) THEN hist.trail
                      ELSE IF ~(ui.isPlaying /\ Len(state.frames) >= 2)
                      THEN << v.currentFramePair >>
                      ELSE IF v.currentFramePair # ui.currentFramePair
                      THEN Append(hist.trail, v.currentFramePair)
                      ELSE hist.trail]
       /\ UNCHANGED << anchor, io >>

\* The loop runs over two or more frames.
Running == ui.isPlaying /\ Len(state.frames) >= 2

UserStep(s, u, a) ==
    /\ steps < MaxPlaySteps
    /\ ui.alone => ~Running
    /\ steps' = steps + 1
    /\ PlayStep(s, u, a)

\* part_004:135-150
PbPlayButton ==
    /\ Len(state.frames) > 0
    /\ UserStep(state,
                IF ui.isPlaying THEN [ui EXCEPT !.isPlaying = FALSE]
                ELSE [ui EXCEPT !.currentFramePair = FramePair(state), !.isPlaying = TRUE],
                Act("playButton", NoId, {}, NoPos))
    /\ UNCHANGED nextId

\* useKeyboardShortcuts.ts:123-128
PbSpace ==
    /\ UserStep(state,
                IF ~ui.isPlaying /\ Len(state.frames) > 1
                THEN [ui EXCEPT !.isPlaying = TRUE] ELSE ui,
                Act("space", NoId, {}, NoPos))
    /\ UNCHANGED nextId

\* part_004:183-192; the slider is disabled during playback.
PbSetSpeed ==
    /\ Len(state.frames) > 0
    /\ ~ui.isPlaying
    /\ \E speed \in PlaySpeeds :
          UserStep(state, [ui EXCEPT !.playbackSpeed = speed],
                   Act("setPlaybackSpeed", speed, {}, NoPos))
    /\ UNCHANGED nextId

\* part_004:117-122
PbRecordFrame ==
    /\ Len(state.frames) < MaxPlayFrames
    /\ UserStep(RECORD_FRAME(state), ui, Act("RECORD_FRAME", NoId, {}, NoPos))
    /\ UNCHANGED nextId

\* part_004:196-207: a click on a frame row.
PbApplyFrame ==
    /\ \E i \in 0..(Len(state.frames) - 1) :
          UserStep(IF ~ui.isPlaying THEN APPLY_FRAME(state, i) ELSE state, ui,
                   Act("frameRow", i, {}, NoPos))
    /\ UNCHANGED nextId

\* useKeyboardShortcuts.ts:48-54
PbSelectAll ==
    /\ UserStep(SELECT_VERTICES(state, DOMAIN state.vertices, FALSE), ui,
                Act("SELECT_VERTICES", NoId, DOMAIN state.vertices, NoPos))
    /\ UNCHANGED nextId

RECURSIVE DeleteVertices(_, _)
DeleteVertices(s, ids) ==
    IF ids = {} THEN s
    ELSE LET id == CHOOSE id \in ids : TRUE
         IN DeleteVertices(DELETE_VERTEX(s, id), ids \ {id})

RECURSIVE DeleteShapes(_, _)
DeleteShapes(s, ids) ==
    IF ids = {} THEN s
    ELSE LET id == CHOOSE id \in ids : TRUE
         IN DeleteShapes(DELETE_SHAPE(s, id), ids \ {id})

\* useKeyboardShortcuts.ts:62-71
PbDeleteKey ==
    /\ UserStep(DeleteShapes(DeleteVertices(state, state.selectedVertexIds),
                             state.selectedShapeIds),
                ui, Act("delete", NoId, state.selectedVertexIds, NoPos))
    /\ UNCHANGED nextId

\* useKeyboardShortcuts.ts:39-46
PbUndoKey ==
    /\ UserStep(UNDO(state), ui, Act("UNDO", NoId, {}, NoPos))
    /\ UNCHANGED nextId

\* A pending animation frame callback fires.
Tick ==
    /\ ui.animationFrame
    /\ \E deltaTime \in PlayDeltas :
          LET r == animate(state, ui, deltaTime)
          IN PlayStep(r.s, r.u, Act("tick", NoId, r.dispatched, NoPos))
    /\ UNCHANGED << steps, nextId >>

UserNext ==
    \/ PbPlayButton \/ PbSpace \/ PbSetSpeed \/ PbRecordFrame \/ PbApplyFrame
    \/ PbSelectAll \/ PbDeleteKey \/ PbUndoKey

NextPlayback == Tick \/ UserNext

SpecPlayback == PlaybackInit /\ [][NextPlayback]_vars

\* Playback left to itself: while the loop runs over two or more frames the
\* user does nothing, and a pending animation frame callback is always
\* delivered in the end.
PlaybackAloneInit ==
    /\ \E n \in 0..MaxPlayFrames : state = PlayDoc(n)
    /\ nextId = 0
    /\ steps = 0
    /\ last = [type |-> "init", id |-> NoId, ids |-> {}, pos |-> NoPos,
               pastLen |-> 0, futLen |-> 0]
    /\ anchor = NoAnchor
    /\ hist = [trail |-> << >>, undos |-> 0]
    /\ io = NoExport
    /\ ui = InitialUi @@ [NoPlayback EXCEPT !.alone = TRUE]

SpecPlaybackAlone == PlaybackAloneInit /\ [][NextPlayback]_vars /\ WF_vars(Tick)

\* ------------------------------------------------------- playback claims
\* The frame pairs gone through since playback started at frame k follow one
\* another: (k, k+1), (k+1, k+2), ..., each "to" being the next index modulo
\* the number of frames, so no pair is repeated.
InOrder(trail, n) ==
    /\ \A i \in 1..Len(trail) :
          /\ trail[i].from = trail[1].from + (i - 1)
          /\ trail[i].from < n
          /\ trail[i].to = (trail[i].from + 1) % n
    /\ \A i, j \in 1..Len(trail) : i # j => trail[i] # trail[j]

\* Playback has just stopped by itself.
StoppedByItself == last.type = "tick" /\ ~ui.isPlaying

\* C25: playback over n >= 2 frames that is left to itself, with ticks that keep
\* arriving, stops in the end; until then the frame pair steps through
\* (k, k+1), ..., (n-1, 0) in order without a repeat, every tick interpolates
\* the pair of that moment, and when the loop stops the last pair was (n-1, 0)
\* and currentFrameIndex is 0.
C25_PlaybackSelfTerminates ==
    /\ Running ~> ~ui.isPlaying
    /\ [](Running =>
             /\ hist.trail # << >>
             /\ InOrder(hist.trail, Len(state.frames))
             /\ hist.trail[Len(hist.trail)] = ui.currentFramePair
             /\ ui.currentFramePair.from = state.currentFrameIndex
             /\ ui.animationFrame)
    /\ [](StoppedByItself =>
             /\ InOrder(hist.trail, Len(state.frames))
             /\ hist.trail[Len(hist.trail)].to = 0
             /\ hist.trail[Len(hist.trail)].from = Len(state.frames) - 1
             /\ state.currentFrameIndex = 0
             /\ ~ui.animationFrame)

\* Playback started at frame 0 of three frames at double speed has stopped by
\* itself after the pairs (0,1), (1,2), (2,0); the vertex is where the last
\* interpolation put it.
C25_Witness ==
    /\ StoppedByItself
    /\ Len(state.frames) = 3
    /\ ui.playbackSpeed = 2
    /\ hist.trail = << [from |-> 0, to |-> 1], [from |-> 1, to |-> 2], [from |-> 2, to |-> 0] >>
    /\ state.currentFrameIndex = 0
    /\ state.vertices[1].x # 0

\* A request to start playback: the Play button or the Space key while stopped.
StartRequest == last'.type \in {"playButton", "space"} /\ ~ui.isPlaying

\* C26: a request to start playback on a Document with fewer than 2 frames
\* changes neither the playing flag, nor the frame pair, nor the Document, and
\* asks for no animation frame.
C26_StartWithFewFramesNoOp ==
    [][(StartRequest /\ Len(state.frames) < 2) =>
          /\ ui'.isPlaying = ui.isPlaying
          /\ ui'.currentFramePair = ui.currentFramePair
          /\ ~ui'.animationFrame
          /\ state' = state]_vars

\* C27: while the loop runs, no handler other than the tick changes vertices
\* or shapes.
C27_NoEditsWhilePlaying ==
    [][(Running /\ last'.type # "tick") =>
          /\ state'.vertices = state.vertices
          /\ state'.shapes = state.shapes]_vars

\* C30: with 2 or more frames the Space key starts playback when it is stopped
\* and stops it when it is playing; with fewer it changes nothing.
C30_SpaceTogglesPlayback ==
    [][last'.type = "space" =>
          /\ state' = state
          /\ IF Len(state.frames) >= 2
             THEN ui'.isPlaying = ~ui.isPlaying
             ELSE ui' = ui]_vars


\* A paste event: the step dispatched through handlePaste, ignored or not.
PasteEvent == steps' = steps + 1 /\ last'.type \in {"handlePaste", "pasteIgnored"}

MaxToolSteps == 5

ToolPoints ==
    {[x |-> 0, y |-> 0], [x |-> 500, y |-> 500],
     [x |-> 4000, y |-> 0], [x |-> 4000, y |-> 3000]}

Tools == {"select", "line", "rect", "polygon"}

\* useCanvasInteraction.ts:34-35
NoConstruction == [tempVertices |-> << >>, isDrawing |-> FALSE]

RectShape(ids) == BaseShape("rect", ids)

\* getOrCreateVertex for an anchor: the vertex near (x, y) that
\* findNearbyVertexForSnap gave, or a new one under newId.
getOrCreateVertex(s, near, x, y, newId) ==
    IF near # NoId
    THEN [id |-> near, v |-> s.vertices[near], isNew |-> FALSE]
    ELSE [id |-> newId, v |-> Vertex(x, y, "anchor"), isNew |-> TRUE]

New(t) == IF t.isNew THEN 1 ELSE 0

\* The ADD_VERTEX dispatches of a handler that captured s0: one for each
\* vertex of ts, in order, that s0 does not hold.
RECURSIVE AddMissing(_, _, _)
AddMissing(s0, s, ts) ==
    IF ts = << >> THEN s
    ELSE AddMissing(s0,
                    IF Head(ts).id \in DOMAIN s0.vertices THEN s
                    ELSE ADD_VERTEX(s, Head(ts).id, Head(ts).v),
                    Tail(ts))

ToolsInit ==
    /\ state = InitialState
    /\ nextId = 0
    /\ steps = 0
    /\ last = [type |-> "init", id |-> NoId, ids |-> {}, pos |-> NoPos,
               pastLen |-> 0, futLen |-> 0]
    /\ anchor = NoAnchor
    /\ hist = [trail |-> << >>, undos |-> 0]
    /\ io = NoExport
    /\ ui = InitialUi @@ NoConstruction

\* The step of a handler that left the reducer at s, the hooks at u and
\* took n new ids.
ToolsStep(s, u, a, n) ==
    /\ steps < MaxToolSteps
    /\ state' = s
    /\ ui' = u
    /\ nextId' = nextId + n
    /\ steps' = steps + 1
    /\ last' = a
    /\ UNCHANGED << anchor, hist >>

\* handleMouseDown, Line tool: the first click keeps the start vertex
\* pending, the second adds what is missing and the line.
LineDown(s, u, t) ==
    IF u.tempVertices = << >>
    THEN [s |-> s, u |-> [u EXCEPT !.tempVertices = << t >>], n |-> New(t)]
    ELSE IF Len(u.tempVertices) = 1
    THEN LET start == u.tempVertices[1]
         IN [s |-> ADD_SHAPE(AddMissing(s, s, << start, t >>), generateId + New(t),
                             LineShape(start.id, t.id)),
             u |-> [u EXCEPT !.tempVertices = << >>],
             n |-> New(t) + 1]
    ELSE [s |-> s, u |-> u, n |-> New(t)]

\* handleMouseDown, Rectangle tool.
RectDown(s, u, t) ==
    IF u.tempVertices = << >>
    THEN [s |-> s, u |-> [u EXCEPT !.tempVertices = << t >>, !.isDrawing = TRUE],
          n |-> New(t)]
    ELSE [s |-> s, u |-> u, n |-> 0]

\* handleMouseDown, Polygon tool.
PolygonDown(s, u, t) ==
    [s |-> s, u |-> [u EXCEPT !.tempVertices = Append(u.tempVertices, t)], n |-> New(t)]

ToolMouseDown ==
    /\ ~ui.held
    /\ \E point \in ToolPoints, shiftKey \in BOOLEAN :
        LET u0 == [ui EXCEPT !.held = TRUE, !.gesture = NoGesture]
            a == Act("mouseDown", NoId, {}, point)
        IN IF ui.tool = "select" /\ RadiusHandlesAt(state, point) # {}
           THEN \E sid \in RadiusHandlesAt(state, point) :
                   ToolsStep(state,
                             [u0 EXCEPT !.isDraggingRadius = sid,
                                        !.radiusDragStart =
                                            [x |-> point.x, y |-> point.y,
                                             originalRadius |-> state.shapes[sid].radius]],
                             a, 0)
           ELSE IF ui.tool = "select"
           THEN \E vid \in findVertexAt(state, point.x, point.y) :
                   IF vid # NoId
                   THEN LET r == SelectDownOnVertex(state, u0, point, shiftKey, vid)
                        IN ToolsStep(r.s, r.u, a, 0)
                   ELSE \E sid \in FirstMatch(CirclesAt(state, point)) :
                          LET r == SelectDownOnSpace(state, u0, point, shiftKey, sid)
                          IN ToolsStep(r.s, r.u, a, 0)
           ELSE LET snapped == snapPoint(ui.snapToGrid, point.x, point.y)
                IN \E near \in findNearbyVertexForSnap(state, snapped.x, snapped.y) :
                     LET t == getOrCreateVertex(state, near, snapped.x, snapped.y, generateId)
                         r == IF ui.tool = "line" THEN LineDown(state, u0, t)
                              ELSE IF ui.tool = "rect" THEN RectDown(state, u0, t)
                              ELSE PolygonDown(state, u0, t)
                     IN ToolsStep(r.s, r.u, a, r.n)
    /\ UNCHANGED io

\* handleMouseUp past the selection box, the radius drag and the drag snap,
\* which left the reducer at s: the Rectangle tool with its first corner
\* pending builds the rectangle from what the handler captured, s0.
RectCase(u) == u.isDrawing /\ u.tool = "rect" /\ Len(u.tempVertices) = 1

RectUp(s0, s, u, sp, nearTR, nearBR, nearBL) ==
    LET topLeft == u.tempVertices[1]
        topRight == getOrCreateVertex(s0, nearTR, sp.x, topLeft.v.y, generateId)
        bottomRight == getOrCreateVertex(s0, nearBR, sp.x, sp.y,
                                         generateId + New(topRight))
        bottomLeft == getOrCreateVertex(s0, nearBL, topLeft.v.x, sp.y,
                                        generateId + New(topRight) + New(bottomRight))
        n == New(topRight) + New(bottomRight) + New(bottomLeft)
        corners == << topLeft, topRight, bottomRight, bottomLeft >>
    IN [s |-> ADD_SHAPE(AddMissing(s0, s, corners), generateId + n,
                        RectShape([i \in 1..4 |-> corners[i].id])),
        u |-> [u EXCEPT !.tempVertices = << >>, !.isDrawing = FALSE],
        n |-> n + 1]

ToolMouseUp ==
    /\ ui.held
    /\ \E point \in ToolPoints, shiftKey \in BOOLEAN :
        LET u0 == [ui EXCEPT !.held = FALSE]
            a == Act("mouseUp", NoId, {}, point)
            e == UpEdit(state, u0, shiftKey)
            sp == snapPoint(ui.snapToGrid, point.x, point.y)
        IN IF ui.selectionBox.active \/ ui.isDraggingRadius # NoId \/ ~RectCase(ui)
           THEN ToolsStep(e.s, e.u, a, 0)
           ELSE \E nearTR \in findNearbyVertexForSnap(state, sp.x, ui.tempVertices[1].v.y),
                   nearBR \in findNearbyVertexForSnap(state, sp.x, sp.y),
                   nearBL \in findNearbyVertexForSnap(state, ui.tempVertices[1].v.x, sp.y) :
                  LET r == RectUp(state, e.s, e.u, sp, nearTR, nearBR, nearBL)
                  IN ToolsStep(r.s, r.u, a, r.n)
    /\ UNCHANGED io

\* The tool keys: setTool and nothing else.
ToolKey ==
    /\ \E tool \in Tools \ {ui.tool} :
          ToolsStep(state, [ui EXCEPT !.tool = tool], Act("setTool", NoId, {}, NoPos), 0)
    /\ UNCHANGED io

\* The tool list of the sidebar: setTool, setTempVertices([]), setIsDrawing(false).
ToolList ==
    /\ \E tool \in Tools \ {ui.tool} :
          ToolsStep(state, [ui EXCEPT !.tool = tool, !.tempVertices = << >>,
                                      !.isDrawing = FALSE],
                    Act("toolList", NoId, {}, NoPos), 0)
    /\ UNCHANGED io

\* The Escape key.  The setSelectionBox it is given by App is a function
\* that does nothing, so the selection box of useCanvasInteraction stays.
\* last.ids records the ids of the construction vertices that were pending.
KeyEscape ==
    /\ ToolsStep(SELECT_SHAPES(SELECT_VERTICES(state, {}, FALSE), {}, FALSE),
                 [ui EXCEPT !.tempVertices = << >>, !.isDrawing = FALSE, !.tool = "select"],
                 Act("escape", NoId,
                     {ui.tempVertices[i].id : i \in DOMAIN ui.tempVertices}, NoPos),
                 0)
    /\ UNCHANGED io

NextTools == ToolMouseDown \/ ToolMouseUp \/ ToolKey \/ ToolList \/ KeyEscape

SpecTools == ToolsInit /\ [][NextTools]_vars

\* C28: the Escape key leaves no pending construction vertices, isDrawing
\* false, no active selection box and the Select tool, and leaves the
\* vertices, the shapes and the history as they were.
C28_EscapeCancelsConstruction ==
    [][last'.type = "escape" /\ steps' = steps + 1 =>
          /\ ui'.tempVertices = << >>
          /\ ~ui'.isDrawing
          /\ ~ui'.selectionBox.active
          /\ ui'.tool = "select"
          /\ state'.vertices = state.vertices
          /\ state'.shapes = state.shapes
          /\ state'.history = state.history]_vars

\* The same without the selection box.
C28_EscapeExceptSelectionBox ==
    [][last'.type = "escape" /\ steps' = steps + 1 =>
          /\ ui'.tempVertices = << >>
          /\ ~ui'.isDrawing
          /\ ui'.tool = "select"
          /\ state'.vertices = state.vertices
          /\ state'.shapes = state.shapes
          /\ state'.history = state.history]_vars

\* Escape came while a construction was pending over a Document with
\* vertices and a history.
C28_EscapeDuringConstruction ==
    /\ last.type = "escape"
    /\ last.ids # {}
    /\ state.vertices # EmptyMap
    /\ last.pastLen > 0


\* ----------------------------------------------------------- drawing tools
\* One drawing tool (Vertex, Line, Circle, Polygon or Bezier; the Rectangle
\* tool is with the construction tools above), chosen with its key before the
\* first click, and the
\* pointer events of the canvas: mousedown and mouseup with the left or the
\* right button, and the contextmenu event that a right mousedown brings with
\* it (before or after the mouseup, as the platform has it).  Ctrl+A selects
\* every vertex.  Positions are whole canvas units, so that 33% and 66% of a
\* span between two clicked points are whole 1/100 units.
MaxDrawSteps == 9

LeftButton == 0
RightButton == 2

DrawPoints ==
    {[x |-> 0, y |-> 0], [x |-> 500, y |-> 500],
     [x |-> 2500, y |-> 2500], [x |-> 4000, y |-> 3000]}

\* Where the button goes up after it went down at p: at p, a click, or,
\* with the Circle tool, at the far corner, a drag.
DragEnds(tool, p) ==
    IF tool = "circle" THEN {p, [x |-> 4000, y |-> 3000]} ELSE {p}

\* The right button is pressed with the tools that look at it, or that
\* answer to its contextmenu event.
Buttons(tool) ==
    IF tool \in {"polygon", "bezier"} THEN {LeftButton, RightButton} ELSE {LeftButton}

DrawTools == {"vertex", "line", "circle", "polygon", "bezier"}

\* d * p / 100, to the nearest 1/100 unit.
Pct(d, p) == JSRound(d * p, 100)

\* handleMouseDown, Vertex tool.
VertexDown(s, u, t) ==
    [s |-> IF t.id \notin DOMAIN s.vertices THEN ADD_VERTEX(s, t.id, t.v) ELSE s,
     u |-> u, n |-> New(t)]

\* handleMouseDown, Bezier tool with the right button and two or more
\* pending anchors: segment i from the i-th to the next anchor, from segment
\* i on.  base is the id of the first control vertex.
RECURSIVE BezierSegments(_, _, _, _, _)
BezierSegments(s0, s, temp, i, base) ==
    IF i >= Len(temp) THEN [s |-> s, segs |-> << >>]
    ELSE LET p0 == temp[i]
             p3 == temp[i + 1]
             p1id == base + 2 * (i - 1)
             p2id == p1id + 1
             p1 == Vertex(p0.v.x + Pct(p3.v.x - p0.v.x, 33), p0.v.y, "control")
             p2 == Vertex(p0.v.x + Pct(p3.v.x - p0.v.x, 66), p3.v.y, "control")
             sA == IF p0.id \in DOMAIN s0.vertices THEN s ELSE ADD_VERTEX(s, p0.id, p0.v)
             sB == ADD_VERTEX(ADD_VERTEX(sA, p1id, p1), p2id, p2)
             sC == IF i = Len(temp) - 1 /\ p3.id \notin DOMAIN s0.vertices
                   THEN ADD_VERTEX(sB, p3.id, p3.v) ELSE sB
             rest == BezierSegments(s0, sC, temp, i + 1, base)
         IN [s |-> rest.s,
             segs |-> << Segment(p0.id, p1id, p2id, p3.id) >> \o rest.segs]

\* handleMouseDown, Bezier tool.  near is what findNearbyVertexForSnap gives
\* at the snapped point; it is asked only when a vertex is appended.
BezierDown(s, u, button, near, sp) ==
    IF button = RightButton /\ Len(u.tempVertices) >= 2
    THEN LET r == BezierSegments(s, s, u.tempVertices, 1, generateId)
             n == 2 * (Len(u.tempVertices) - 1)
         IN [s |-> ADD_SHAPE(r.s, generateId + n, BezierShape(r.segs)),
             u |-> [u EXCEPT !.tempVertices = << >>],
             n |-> n + 1]
    ELSE LET t == getOrCreateVertex(s, near, sp.x, sp.y, generateId)
         IN [s |-> s, u |-> [u EXCEPT !.tempVertices = Append(u.tempVertices, t)],
             n |-> New(t)]

\* handleMouseDown, Circle tool.
CircleDown(s, u, t) ==
    IF u.tempVertices = << >>
    THEN [s |-> s, u |-> [u EXCEPT !.tempVertices = << t >>, !.isDrawing = TRUE],
          n |-> New(t)]
    ELSE [s |-> s, u |-> u, n |-> 0]

\* handleMouseUp, Circle tool with its centre pending: the radius is the
\* distance from the centre to the pointer, to the 1/100 unit below.
CircleCase(u) == u.isDrawing /\ u.tool = "circle" /\ Len(u.tempVertices) = 1

CircleUp(s, u, point) ==
    LET centre == u.tempVertices[1]
    IN [s |-> ADD_SHAPE(AddMissing(s, s, << centre >>), generateId,
                        CircleShape(centre.id, distance(point, centre.v))),
        u |-> [u EXCEPT !.tempVertices = << >>, !.isDrawing = FALSE],
        n |-> 1]

\* handleContextMenu: the Polygon tool with three or more pending vertices.
handleContextMenu(s, u) ==
    IF u.tool = "polygon" /\ Len(u.tempVertices) >= 3
    THEN [s |-> ADD_SHAPE(AddMissing(s, s, u.tempVertices), generateId,
                          PolygonShape([i \in DOMAIN u.tempVertices |->
                                           u.tempVertices[i].id])),
          u |-> [u EXCEPT !.tempVertices = << >>],
          n |-> 1]
    ELSE [s |-> s, u |-> u, n |-> 0]

\* ui.menu: a right mousedown happened and its contextmenu event is due;
\* ui.downAt: where the button went down last.
DrawInit ==
    /\ state = InitialState
    /\ nextId = 0
    /\ steps = 0
    /\ last = [type |-> "init", id |-> NoId, ids |-> {}, pos |-> NoPos,
               pastLen |-> 0, futLen |-> 0]
    /\ anchor = NoAnchor
    /\ hist = [trail |-> << >>, undos |-> 0]
    /\ io = NoExport
    /\ \E tool \in DrawTools :
          ui = [InitialUi EXCEPT !.tool = tool] @@ NoConstruction
                 @@ [menu |-> FALSE, downAt |-> NoPos]

\* The step of a handler that left the reducer at s, the hooks at u and took
\* n new ids.  hist.trail keeps the pending vertices that the last mousedown
\* found.
DrawStep(s, u, a, n) ==
    /\ steps < MaxDrawSteps
    /\ state' = s
    /\ ui' = u
    /\ nextId' = nextId + n
    /\ steps' = steps + 1
    /\ last' = a
    /\ hist' = [hist EXCEPT !.trail = IF a.type = "mouseDown" THEN ui.tempVertices
                                     ELSE hist.trail]
    /\ UNCHANGED << anchor, io >>

\* handleMouseDown with a drawing tool.  last.id is the id of the vertex
\* that getOrCreateVertex returned, last.ids the button.
DrawMouseDown ==
    /\ ~ui.held /\ ~ui.menu
    /\ \E point \in DrawPoints, button \in Buttons(ui.tool) :
        LET u0 == [ui EXCEPT !.held = TRUE, !.menu = (button = RightButton),
                             !.downAt = point]
            sp == snapPoint(ui.snapToGrid, point.x, point.y)
        IN \E near \in findNearbyVertexForSnap(state, sp.x, sp.y) :
             LET t == getOrCreateVertex(state, near, sp.x, sp.y, generateId)
                 emits == ui.tool = "bezier" /\ button = RightButton
                          /\ Len(ui.tempVertices) >= 2
                 r == IF ui.tool = "vertex" THEN VertexDown(state, u0, t)
                      ELSE IF ui.tool = "line" THEN LineDown(state, u0, t)
                      ELSE IF ui.tool = "circle" THEN CircleDown(state, u0, t)
                      ELSE IF ui.tool = "polygon" THEN PolygonDown(state, u0, t)
                      ELSE BezierDown(state, u0, button, near, sp)
             IN DrawStep(r.s, r.u,
                         Act("mouseDown", IF emits THEN NoId ELSE t.id, {button}, sp),
                         r.n)
    /\ UNCHANGED io

\* handleMouseUp with a drawing tool: nothing is dragged and no selection
\* box is open, so only the Circle tool acts.
DrawMouseUp ==
    /\ ui.held
    /\ \E point \in DragEnds(ui.tool, ui.downAt) :
        LET u0 == [ui EXCEPT !.held = FALSE]
            a == Act("mouseUp", NoId, {}, point)
            sp == snapPoint(ui.snapToGrid, point.x, point.y)
        IN IF CircleCase(ui)
           THEN LET r == CircleUp(state, u0, point)
                IN DrawStep(r.s, r.u, a, r.n)
           ELSE DrawStep(state, u0, Act("mouseUp", NoId, {}, NoPos), 0)
    /\ UNCHANGED io

\* The contextmenu event of a right click.
DrawContextMenu ==
    /\ ui.menu
    /\ LET r == handleContextMenu(state, [ui EXCEPT !.menu = FALSE])
       IN DrawStep(r.s, r.u, Act("contextMenu", NoId, {}, NoPos), r.n)
    /\ UNCHANGED io

\* Ctrl+A: SELECT_VERTICES with every vertex id.
DrawSelectAll ==
    /\ ~ui.held /\ ~ui.menu
    /\ state.selectedVertexIds # DOMAIN state.vertices
    /\ DrawStep(SELECT_VERTICES(state, DOMAIN state.vertices, FALSE), ui,
                Act("selectAll", NoId, {}, NoPos), 0)
    /\ UNCHANGED io

NextDraw == DrawMouseDown \/ DrawMouseUp \/ DrawContextMenu \/ DrawSelectAll

SpecDraw == DrawInit /\ [][NextDraw]_vars


\* A mousedown of the right button with the Bezier tool.
BezierRightClick ==
    /\ steps' = steps + 1
    /\ last'.type = "mouseDown" /\ last'.ids = {RightButton}
    /\ ui.tool = "bezier"

\* v lies at p percent of the span from a to b, to the 1/100 unit, along x
\* and along y.
AtPercentX(v, a, b, p) == Abs(100 * (v.x - a.x) - p * (b.x - a.x)) <= 50
AtPercentY(v, a, b, p) == Abs(100 * (v.y - a.y) - p * (b.y - a.y)) <= 50

\* The shape that a step added, as a set of ids.
NewShapes == (DOMAIN state'.shapes) \ (DOMAIN state.shapes)

\* Segment i of the new shape sid runs from pending anchor i to the next one
\* over two new control vertices.
SegmentOverPending(sid, i) ==
    LET seg == state'.shapes[sid].segments[i]
        a == ui.tempVertices[i]
        b == ui.tempVertices[i + 1]
    IN /\ seg.p0 = a.id /\ seg.p3 = b.id
       /\ {seg.p1, seg.p2} \cap DOMAIN state.vertices = {}
       /\ {seg.p1, seg.p2} \subseteq DOMAIN state'.vertices
       /\ seg.p1 # seg.p2
       /\ state'.vertices[seg.p1].type = "control"
       /\ state'.vertices[seg.p2].type = "control"

\* C31: a right click of the Bezier tool with k >= 2 pending anchors adds one
\* bezier of k - 1 segments in click order, segment i from anchor i to anchor
\* i + 1 with two new control vertices at 33% and 66% of the straight span
\* between them in x and in y; with fewer than 2 pending anchors it adds no
\* shape.
C31_BezierFromPendingAnchors ==
    [][BezierRightClick =>
          LET k == Len(ui.tempVertices)
          IN IF k < 2 THEN state'.shapes = state.shapes
             ELSE /\ Cardinality(NewShapes) = 1
                  /\ \A sid \in NewShapes :
                        /\ state'.shapes[sid].type = "bezier"
                        /\ Len(state'.shapes[sid].segments) = k - 1
                        /\ \A i \in 1..(k - 1) :
                              LET seg == state'.shapes[sid].segments[i]
                                  a == ui.tempVertices[i].v
                                  b == ui.tempVertices[i + 1].v
                                  p1 == state'.vertices[seg.p1]
                                  p2 == state'.vertices[seg.p2]
                              IN /\ SegmentOverPending(sid, i)
                                 /\ AtPercentX(p1, a, b, 33) /\ AtPercentY(p1, a, b, 33)
                                 /\ AtPercentX(p2, a, b, 66) /\ AtPercentY(p2, a, b, 66)]_vars

\* What the code does: the same with p1 at the height of the first anchor
\* and p2 at the height of the second.
C31_BezierControlHeights ==
    [][BezierRightClick =>
          LET k == Len(ui.tempVertices)
          IN IF k < 2 THEN state'.shapes = state.shapes
             ELSE /\ Cardinality(NewShapes) = 1
                  /\ \A sid \in NewShapes :
                        /\ state'.shapes[sid].type = "bezier"
                        /\ Len(state'.shapes[sid].segments) = k - 1
                        /\ \A i \in 1..(k - 1) :
                              LET seg == state'.shapes[sid].segments[i]
                                  a == ui.tempVertices[i].v
                                  b == ui.tempVertices[i + 1].v
                                  p1 == state'.vertices[seg.p1]
                                  p2 == state'.vertices[seg.p2]
                              IN /\ SegmentOverPending(sid, i)
                                 /\ AtPercentX(p1, a, b, 33) /\ p1.y = a.y
                                 /\ AtPercentX(p2, a, b, 66) /\ p2.y = b.y]_vars

\* A bezier of two segments was emitted.
C31_TwoSegments ==
    /\ last.type = "mouseDown" /\ last.ids = {RightButton}
    /\ ui.tool = "bezier"
    /\ Len(hist.trail) = 3
    /\ \E sid \in DOMAIN state.shapes : Len(state.shapes[sid].segments) = 2


\* The ids of pending vertices, in order.
PendingIds(temp) == [i \in DOMAIN temp |-> temp[i].id]

\* The step added one polygon, closed, over the vertices temp in order.
EmitsPolygon(temp) ==
    /\ Cardinality(NewShapes) = 1
    /\ \A sid \in NewShapes :
          /\ state'.shapes[sid].type = "polygon"
          /\ state'.shapes[sid].closed
          /\ state'.shapes[sid].vertexIds = PendingIds(temp)
    /\ PendingIds(temp) \in [DOMAIN temp -> DOMAIN state'.vertices]

PolygonLeftDown ==
    /\ steps' = steps + 1 /\ ui.tool = "polygon"
    /\ last'.type = "mouseDown" /\ last'.ids = {LeftButton}

PolygonContextMenu ==
    /\ steps' = steps + 1 /\ ui.tool = "polygon"
    /\ last'.type = "contextMenu"

\* C32: with the Polygon tool a left click appends one vertex to the pending
\* list and leaves the AppState alone; the contextmenu of a right click adds
\* a closed polygon over exactly the vertices that were pending before the
\* right click, in click order, when these were 3 or more, and adds nothing
\* when they were fewer.
C32_PolygonFromPendingVertices ==
    [][/\ PolygonLeftDown =>
             /\ state' = state
             /\ Len(ui'.tempVertices) = Len(ui.tempVertices) + 1
             /\ SubSeq(ui'.tempVertices, 1, Len(ui.tempVertices)) = ui.tempVertices
       /\ PolygonContextMenu =>
             IF Len(hist.trail) >= 3 THEN EmitsPolygon(hist.trail)
             ELSE state' = state]_vars

\* What the code does: the mousedown of the right click appends its vertex
\* too, and the contextmenu counts and takes the list with that vertex.
C32_PolygonWithRightClickVertex ==
    [][/\ PolygonLeftDown =>
             /\ state' = state
             /\ Len(ui'.tempVertices) = Len(ui.tempVertices) + 1
             /\ SubSeq(ui'.tempVertices, 1, Len(ui.tempVertices)) = ui.tempVertices
       /\ PolygonContextMenu =>
             /\ Len(ui.tempVertices) = Len(hist.trail) + 1
             /\ IF Len(ui.tempVertices) >= 3 THEN EmitsPolygon(ui.tempVertices)
                ELSE state' = state]_vars

\* A right click after three left clicks gave a polygon of four vertices.
C32_FourVertices ==
    /\ last.type = "contextMenu"
    /\ Len(hist.trail) = 3
    /\ \E sid \in DOMAIN state.shapes :
          state.shapes[sid].type = "polygon" /\ Len(state.shapes[sid].vertexIds) = 4


\* A mousedown that placed a vertex: every one but the right click that
\* emits a bezier.
Placement == steps' = steps + 1 /\ last'.type = "mouseDown" /\ last'.id # NoId

\* The vertices within the snap radius of p.
Nearby(p) ==
    {id \in DOMAIN state.vertices : isPointNearVertex(p.x, p.y, state.vertices[id], SnapRadius)}

NearbyAnchors(p) ==
    {id \in Nearby(p) : state.vertices[id].type = "anchor" /\ id \notin state.selectedVertexIds}

\* C33: a placement within the snap radius of an unselected anchor uses one
\* such anchor and makes no vertex for the click; a placement never uses a
\* control vertex nor a selected vertex.
C33_SnapReusesUnselectedAnchors ==
    [][Placement =>
          /\ NearbyAnchors(last'.pos) # {} => last'.id \in NearbyAnchors(last'.pos)
          /\ last'.id \in DOMAIN state.vertices =>
                /\ state.vertices[last'.id].type = "anchor"
                /\ last'.id \notin state.selectedVertexIds]_vars

\* What the code does: any unselected vertex within the radius is used,
\* whatever its type.
C33_SnapReusesUnselectedVertices ==
    [][Placement =>
          /\ Nearby(last'.pos) \ state.selectedVertexIds # {} =>
                last'.id \in Nearby(last'.pos) \ state.selectedVertexIds
          /\ last'.id \in DOMAIN state.vertices =>
                last'.id \in Nearby(last'.pos) \ state.selectedVertexIds]_vars

\* A click used a control vertex, the only vertex within the radius.  The
\* click was at last.pos and the vertices have not moved since.
C33_ControlVertexReused ==
    /\ last.type = "mouseDown"
    /\ last.id \in DOMAIN state.vertices
    /\ state.vertices[last.id].type = "control"
    /\ Nearby(last.pos) = {last.id}

\* A click next to an anchor used it; a click on a selected anchor made a
\* new vertex.
C33_AnchorReused ==
    /\ last.type = "mouseDown"
    /\ last.id \in DOMAIN state.vertices
    /\ state.vertices[last.id].type = "anchor"
    /\ last.pos # [x |-> state.vertices[last.id].x, y |-> state.vertices[last.id].y]
    /\ last.pastLen = Len(state.history.past)

C33_SelectedNotReused ==
    /\ last.type = "mouseDown" /\ ui.tool = "vertex"
    /\ last.id \in DOMAIN state.vertices
    /\ \E id \in state.selectedVertexIds \cap DOMAIN state.vertices :
          /\ id # last.id
          /\ state.vertices[id].x = state.vertices[last.id].x
          /\ state.vertices[id].y = state.vertices[last.id].y


\* The vertex reference list of a shape has the length of its kind, and that
\* of a bezier is the flattening of its segments.
HasCardinality(shape) ==
    CASE shape.type = "line" -> Len(shape.vertexIds) = 2
      [] shape.type = "rect" -> Len(shape.vertexIds) = 4
      [] shape.type = "circle" -> Len(shape.vertexIds) = 1
      [] shape.type = "polygon" -> Len(shape.vertexIds) >= 3
      [] shape.type = "bezier" -> /\ Len(shape.vertexIds) = 4 * Len(shape.segments)
                                  /\ shape.vertexIds = FlatSegments(shape.segments)
      [] OTHER -> FALSE

\* C34: in every state every shape has the cardinality of its kind.
C34_ShapeCardinality ==
    \A sid \in DOMAIN state.shapes : HasCardinality(state.shapes[sid])

\* Every shape of the Document and of every history snapshot has its
\* cardinality.
CardinalityThroughout(s) ==
    /\ \A sid \in DOMAIN s.shapes : HasCardinality(s.shapes[sid])
    /\ \A i \in DOMAIN s.history.past :
          \A sid \in DOMAIN s.history.past[i].shapes :
             HasCardinality(s.history.past[i].shapes[sid])
    /\ \A i \in DOMAIN s.history.future :
          \A sid \in DOMAIN s.history.future[i].shapes :
             HasCardinality(s.history.future[i].shapes[sid])

\* Every action but an import keeps the cardinalities.
C34_CardinalityButForImports ==
    [][(last'.type # "IMPORT_DATA" /\ CardinalityThroughout(state)) =>
          CardinalityThroughout(state')]_vars

\* Shapes of the kinds the tools and the sample files make are there.
C34_LineAndCircle ==
    /\ \E sid \in DOMAIN state.shapes : state.shapes[sid].type = "line"
    /\ \E sid \in DOMAIN state.shapes : state.shapes[sid].type = "circle"
    /\ last.type \in {"MERGE_VERTICES", "UNDO", "REDO"}


\* ------------------------------------------------- history, any interleaving
\* Imports of one file, Undo, Redo and Clear All in any order.  Every import
\* pushes a snapshot and leads to the same Document, so that 50 and more
\* snapshots are reached under every interleaving of the four.
MaxMixSteps == 53

MixStep(s, a) ==
    /\ steps < MaxMixSteps
    /\ state' = s
    /\ steps' = steps + 1
    /\ last' = a
    /\ UNCHANGED << anchor, hist, io, ui >>

MixImport ==
    /\ MixStep(IMPORT_DATA(state, FileDoc1.vertices, FileDoc1.shapes, FileDoc1.groups,
                           FileDoc1.frames),
               Act("IMPORT_DATA", NoId, {}, NoPos))
    /\ UNCHANGED nextId

MixUndo ==
    /\ state.history.past # << >>
    /\ MixStep(UNDO(state), Act("UNDO", NoId, {}, NoPos))
    /\ UNCHANGED nextId

MixRedo ==
    /\ state.history.future # << >>
    /\ MixStep(REDO(state), Act("REDO", NoId, {}, NoPos))
    /\ UNCHANGED nextId

MixClearAll ==
    /\ state # InitialState
    /\ MixStep(CLEAR_ALL(state), Act("CLEAR_ALL", NoId, {}, NoPos))
    /\ UNCHANGED nextId

NextMix == MixImport \/ MixUndo \/ MixRedo \/ MixClearAll

SpecHistoryMix == Init /\ [][NextMix]_vars

\* C35: in every state past holds at most 50 snapshots, and past and future
\* together at most 50.
C35_HistoryBounded ==
    /\ Len(state.history.past) <= HistoryLimit
    /\ Len(state.history.past) + Len(state.history.future) <= HistoryLimit

\* A Redo brought past back to 50 snapshots.
C35_Witness ==
    /\ last.type = "REDO"
    /\ Len(state.history.past) = HistoryLimit
    /\ last.pastLen = HistoryLimit - 1


\* ------------------------------------------------- Undo and Redo as inverses
\* What the Undo/Redo pair is said to restore.
Restored(s) ==
    [vertices |-> s.vertices, shapes |-> s.shapes,
     past |-> s.history.past, future |-> s.history.future]

\* C36: an Undo taken with history.past non-empty is taken back by a Redo, and
\* a Redo taken with history.future non-empty is taken back by an Undo:
\* vertices, shapes, history.past and history.future are as before the pair.
C36_UndoRedoInverses ==
    [][/\ (last'.type = "UNDO" /\ last'.pastLen > 0) =>
              Restored(REDO(state')) = Restored(state)
       /\ (last'.type = "REDO" /\ last'.futLen > 0) =>
              Restored(UNDO(state')) = Restored(state)]_vars

\* C36 witness: a Redo that followed Undos, between two snapshots that differ,
\* with both stacks non-empty afterwards.
C36_Witness ==
    /\ last.type = "REDO" /\ last.futLen > 1 /\ last.pastLen > 0
    /\ Snapshot(state) # state.history.past[Len(state.history.past)]
    /\ Snapshot(state) # state.history.future[1]


\* --------------------------------------------------------- selection validity
SelectionValid(s) ==
    /\ s.selectedVertexIds \subseteq DOMAIN s.vertices
    /\ s.selectedShapeIds \subseteq DOMAIN s.shapes

\* C37: in every reachable state every id in selectedVertexIds is a key of
\* vertices and every id in selectedShapeIds is a key of shapes.
C37_SelectionValid == SelectionValid(state)


\* The actions after which a selection can name an id that is gone: Undo and
\* Redo replace vertices and shapes and keep the selection; DELETE_VERTEX
\* removes the shapes on the vertex and filters only selectedVertexIds;
\* DELETE_SHAPE of a bezier removes its control vertices and filters only
\* selectedShapeIds.
SelectionBreakers == {"UNDO", "REDO", "DELETE_VERTEX", "DELETE_SHAPE"}

\* What holds instead: every other action keeps a valid selection valid.
C37_ValidButForBreakers ==
    [][(SelectionValid(state) /\ last'.type \notin SelectionBreakers)
          => SelectionValid(state')]_vars


\* -------------------------------------------------------- frame index validity
\* C38: currentFrameIndex is at least 0 and, when frames is non-empty, less
\* than frames.length.
C38_FrameIndexValid ==
    /\ state.currentFrameIndex >= 0
    /\ state.frames # << >> => state.currentFrameIndex < Len(state.frames)

\* What holds instead: the index is below frames.length whenever there are
\* frames, never below -1, and -1 only with no frame left.
C38_FrameIndexBelowLength ==
    /\ state.currentFrameIndex >= -1
    /\ state.frames # << >> =>
          (state.currentFrameIndex >= 0 /\ state.currentFrameIndex < Len(state.frames))

\* The last frame was deleted: DELETE_FRAME left Math.min(0, -1).
C38_LastFrameDeleted ==
    /\ last.type = "DELETE_FRAME"
    /\ state.frames = << >>
    /\ state.currentFrameIndex = -1


\* -------------------------------------------------------------- SpecDelete
\* The Delete key on a selection of vertices and shapes, followed by Undos and
\* Redos.  The Document was imported one or more times, so that history.past
\* is short or already at its limit when the key is pressed.  ui.press holds
\* the selection and the Document at the last press, ui.undos the Undos since
\* then that no Redo took back; a Redo past the press forgets the press.
MaxDeleteSteps == 5

DeleteDocs == {FileDoc1, FileDoc2}

DeleteDepths == {1, HistoryLimit - 1, HistoryLimit}

RECURSIVE Imported(_, _)
Imported(d, k) ==
    IF k = 0 THEN InitialState
    ELSE IMPORT_DATA(Imported(d, k - 1), d.vertices, d.shapes, d.groups, d.frames)

\* The orders in which a Set of ids can be iterated.
Orders(ids) ==
    {f \in [1..Cardinality(ids) -> ids] :
        \A i, j \in 1..Cardinality(ids) : i # j => f[i] # f[j]}

RECURSIVE DeleteVerticesIn(_, _)
DeleteVerticesIn(s, order) ==
    IF order = << >> THEN s
    ELSE DeleteVerticesIn(DELETE_VERTEX(s, Head(order)), Tail(order))

RECURSIVE DeleteShapesIn(_, _)
DeleteShapesIn(s, order) ==
    IF order = << >> THEN s
    ELSE DeleteShapesIn(DELETE_SHAPE(s, Head(order)), Tail(order))

\* Fault: the gesture as one structural edit, with one history entry.
handleKeyDown_delete_OneEntry(s, vorder, sorder) ==
    [DeleteShapesIn(DeleteVerticesIn(s, vorder), sorder) EXCEPT !.history = saveHistory(s)]

\* case 'delete' / 'backspace': one DELETE_VERTEX per selected vertex id, then
\* one DELETE_SHAPE per selected shape id, each reduced on the state the one
\* before left.
handleKeyDown_delete(s, vorder, sorder) ==
    DeleteShapesIn(DeleteVerticesIn(s, vorder), sorder)

NoPress ==
    [valid |-> FALSE, vertexIds |-> {}, shapeIds |-> {},
     before |-> Snapshot(InitialState), pastLen |-> 0]

DeleteInit ==
    /\ \E d \in DeleteDocs, k \in DeleteDepths : state = Imported(d, k)
    /\ nextId = 0
    /\ steps = 0
    /\ last = [type |-> "init", id |-> NoId, ids |-> {}, pos |-> NoPos,
               pastLen |-> 0, futLen |-> 0]
    /\ anchor = NoAnchor
    /\ hist = [trail |-> << >>, undos |-> 0]
    /\ io = NoExport
    /\ ui = InitialUi @@ [press |-> NoPress, undos |-> 0]

DeleteStep(s, u, a) ==
    /\ steps < MaxDeleteSteps
    /\ state' = s
    /\ ui' = u
    /\ steps' = steps + 1
    /\ last' = a
    /\ UNCHANGED << anchor, hist, io >>

DlSelectVertices ==
    /\ \E ids \in SUBSET DOMAIN state.vertices :
          DeleteStep(SELECT_VERTICES(state, ids, FALSE), ui,
                     Act("SELECT_VERTICES", NoId, ids, NoPos))
    /\ UNCHANGED nextId

DlSelectShapes ==
    /\ \E ids \in SUBSET DOMAIN state.shapes :
          DeleteStep(SELECT_SHAPES(state, ids, FALSE), ui,
                     Act("SELECT_SHAPES", NoId, ids, NoPos))
    /\ UNCHANGED nextId

DlDeleteKey ==
    /\ \E vorder \in Orders(state.selectedVertexIds),
          sorder \in Orders(state.selectedShapeIds) :
          DeleteStep(handleKeyDown_delete(state, vorder, sorder),
                     [ui EXCEPT !.press = [valid |-> TRUE,
                                           vertexIds |-> state.selectedVertexIds,
                                           shapeIds |-> state.selectedShapeIds,
                                           before |-> Snapshot(state),
                                           pastLen |-> Len(state.history.past)],
                                !.undos = 0],
                     Act("delete", NoId, state.selectedVertexIds, NoPos))
    /\ UNCHANGED nextId

DlUndo ==
    /\ state.history.past # << >>
    /\ DeleteStep(UNDO(state),
                  [ui EXCEPT !.undos = IF ui.press.valid THEN @ + 1 ELSE @],
                  Act("UNDO", NoId, {}, NoPos))
    /\ UNCHANGED nextId

DlRedo ==
    /\ state.history.future # << >>
    /\ DeleteStep(REDO(state),
                  IF ui.undos > 0 THEN [ui EXCEPT !.undos = @ - 1]
                  ELSE [ui EXCEPT !.press = NoPress],
                  Act("REDO", NoId, {}, NoPos))
    /\ UNCHANGED nextId

NextDelete == DlSelectVertices \/ DlSelectShapes \/ DlDeleteKey \/ DlUndo \/ DlRedo

SpecDelete == DeleteInit /\ [][NextDelete]_vars

\* The number of deletes the last press of Delete dispatched.
Dispatched == Cardinality(ui.press.vertexIds) + Cardinality(ui.press.shapeIds)

\* C39: after Delete is pressed with v vertices and s shapes selected, none of
\* those ids is in vertices or shapes and v + s snapshots were pushed, the
\* first of them the Document before the press; after v + s Undos vertices
\* and shapes are again those before the press.
C39_DeleteThenUndos ==
    ui.press.valid =>
        /\ ui.undos = 0 =>
              /\ ui.press.vertexIds \cap DOMAIN state.vertices = {}
              /\ ui.press.shapeIds \cap DOMAIN state.shapes = {}
              /\ Len(state.history.past) =
                    IF ui.press.pastLen + Dispatched < HistoryLimit
                    THEN ui.press.pastLen + Dispatched ELSE HistoryLimit
              /\ Dispatched > 0 =>
                    state.history.past[Len(state.history.past) - Dispatched + 1]
                        = ui.press.before
        /\ ui.undos = Dispatched => Snapshot(state) = ui.press.before

\* C39 witness: Delete pressed on at least one vertex and one shape with
\* history.past nearly full, then as many Undos as deletes were dispatched.
C39_Witness ==
    /\ ui.press.valid
    /\ ui.press.vertexIds # {} /\ ui.press.shapeIds # {}
    /\ ui.press.pastLen >= HistoryLimit - 1
    /\ ui.undos = Dispatched
    /\ last.type = "UNDO"


\* -------------------------------------------------------------- SpecCircle
\* Export and import of a Document holding one circle as the Circle tool
\* leaves it: the centre vertex and a circle whose radius is the distance the
\* pointer was dragged, in 1/100 canvas unit, 0 for a click without drag.
MaxCircleRadius == 60

CircleRadii == 0..MaxCircleRadius \cup {500, 510, 2010, 5000}

CircleCentres == {[x |-> 0, y |-> 0], [x |-> 1000, y |-> 2010]}

DrawnCircle(p, r) ==
    ADD_SHAPE(ADD_VERTEX(InitialState, NumFileIds + 1, Vertex(p.x, p.y, "anchor")),
              NumFileIds + 2, CircleShape(NumFileIds + 1, r))

CircleInit ==
    /\ \E p \in CircleCentres, r \in CircleRadii : state = DrawnCircle(p, r)
    /\ nextId = 2
    /\ steps = 0
    /\ last = [type |-> "init", id |-> NoId, ids |-> {}, pos |-> NoPos,
               pastLen |-> 0, futLen |-> 0]
    /\ anchor = NoAnchor
    /\ hist = [trail |-> << >>, undos |-> 0]
    /\ io = [NoExport EXCEPT !.closure = Closure(state)]
    /\ ui = InitialUi

SpecCircle == CircleInit /\ [][NextRoundTrip]_vars

CirclesOf(shapes) == {id \in DOMAIN shapes : shapes[id].type = "circle"}

\* The imported radius of circle id is within 0.005 * gridSize canvas units of
\* the radius it had at the export.
RadiusKept(id) ==
    /\ id \in DOMAIN state.shapes
    /\ 2 * Abs(state.shapes[id].radius - io.orig.shapes[id].radius) <= GridSize

\* C40: after the export of a Document and the import of the exported file
\* with the same gridSize, every circle of radius >= 0 has a radius within
\* 0.005 * gridSize of the one it had.
C40_RoundTripRadii ==
    last.type = "importFromJSON" =>
        \A id \in CirclesOf(io.orig.shapes) :
            io.orig.shapes[id].radius >= 0 => RadiusKept(id)

\* What holds instead: the radius is kept when the exported value,
\* Math.round(radius / gridSize * 100) / 100, is not 0.
C40_RoundTripExportedRadii ==
    last.type = "importFromJSON" =>
        \A id \in CirclesOf(io.orig.shapes) :
            JSRound(io.orig.shapes[id].radius, GridSize) # 0 => RadiusKept(id)

\* A circle of radius 0 came back from the file with 50 grid units.
C40_ZeroRadiusBecomesDefault ==
    /\ last.type = "importFromJSON"
    /\ \E id \in CirclesOf(io.orig.shapes) :
          /\ io.orig.shapes[id].radius = 0
          /\ state.shapes[id].radius = 50 * 100 * GridSize

\* The Circle tool left a circle of radius 0 (pointer released where it went
\* down).
C40_ZeroRadiusDrawn ==
    /\ last.type = "mouseUp"
    /\ \E id \in CirclesOf(state.shapes) : state.shapes[id].radius = 0

====
